---------------------------- MODULE Spec2Model ----------------------------
(***************************************************************************)
(* A model of the auto-invest engine of ibkr-auto-invest: the portfolio    *)
(* analysis, the plan builder, the executor and the affordability check.   *)
(*                                                                         *)
(* Numbers.  The program computes with IEEE doubles; the model computes    *)
(* with exact fixed-point integers.  An amount of money m is held as the   *)
(* integer m * Scale, an exchange rate r as the integer 100 * r            *)
(* (hundredths) and the buffer fraction b as the integer 100 * b (percent  *)
(* points).  A percentage that is a quotient (currentPercent,              *)
(* deviationPercent) is held as a fraction [num, den] with den > 0.        *)
(***************************************************************************)
EXTENDS Integers, Sequences, FiniteSets, TLC

VARIABLES
    \* the remote account, as the gateway answers for it
    ledger,            \* currency -> [cashbalance]; a currency may be missing
    positions,         \* the positions getAllPositions returns
    rateResp,          \* the answer of getExchangeRate('ILS','USD')
    secdef,            \* the outcome of searchSecurity for an uncached symbol
    \* the allocation store
    allocations,       \* store key 'allocations'
    bufferPercent,     \* store key 'bufferPercent', in percent points
    lastUpdated,       \* store key 'lastUpdated': 0 for the default '', else the number of the write since then
    storeCall,         \* the latest call of a store setter and how it ended
    \* analyzePortfolio
    anaPc,             \* "idle" | "strict" | "fallback": which variant has returned
    analysis,          \* the PortfolioAnalysis returned, or a thrown error
    \* createAutoInvestPlan
    planPc,            \* "idle" | "analysis" | "walk" | "planned" | "threw"
    underweightPositions,
    i,                 \* the loop index of the greedy walk (1-based)
    remainingCash,
    ordersToPlace,
    plan,              \* the AutoInvestPlan returned
    \* executeAutoInvest
    execPc,            \* "idle" | "ledger" | "analysis" | "planning" | "convert" | "preview" | "place" |
                       \* "reply" | "done" | "threw"
    k,                 \* index of the planned order being processed (1-based)
    results,
    errors,
    ordersPlaced,
    ordersFailed,
    totalInvested,
    conversionResult,  \* what convertIlsToUsdAndWait settled with
    currencyConversion,
    sent,              \* the order requests sent so far, in order
    preview,           \* the latest what-if response
    affordCheck,       \* the latest result of canAffordOrder
    lastResp,          \* the latest response to a place or reply request
    execResult,        \* the AutoInvestResult returned
    execBufferPercent, \* the bufferPercent executeAutoInvest read from the store
    \* repeated analyzePortfolio calls
    callLog,           \* the analyzePortfolio calls: what each has read and returned
    \* waitForOrderFill
    fillPc,            \* "idle" | "loop" | "sleep" | "final" | "done"
    elapsed,           \* Date.now() - startTime of pollUntil
    attempt,           \* pollUntil's attempt counter
    liveLog,           \* what each getLiveOrders request showed of the order
    pollResult,        \* what pollUntil resolved with
    fillResult,        \* what waitForOrderFill resolved with
    \* getAllPositions
    pagesPc,           \* "idle" | "loop" | "done" | "threw"
    pageId,
    allPositions,
    pageRequests,      \* the page ids requested so far, in order
    pageBackend,       \* the page the gateway answers for each page id
    \* ibkrRequest
    httpPc,            \* "idle" | "pending" | "resolved" | "rejected" | "threw"
    redirectCount,     \* the redirectCount of the makeRequest that is pending
    httpRequests,      \* the number of HTTP requests issued by the call
    httpLog,           \* what each request ended with, in order
    httpResult,        \* what the promise of the call settled with
    \* the 'autoinvest:execute' requests of one account
    runPc,             \* per request: "idle" | "positions" | "rate" | "search" | "preview" |
                       \* "place" | "reply" | "done" | "threw"
    runCall,           \* per request: what its analyzePortfolio call has read and returned
    runPlan,           \* per request: the plan its run works from
    runK,              \* per request: the planned order its run is at
    placements,        \* the place requests sent for the account, in order
    \* convertIlsToUsd
    convPc,            \* "idle" | "conid" | "preview" | "place" | "reply" | "reply2" | "done"
    ilsAmount,         \* the amount convertIlsToUsd was called with
    convSent,          \* the order requests of the conversion and what each settled with
    convResult,        \* the ForexConversionResult returned
    \* pollUntil
    pollPc,            \* "idle", "checking", "sleeping" or "done"
    timeoutMs,         \* options.timeoutMs of the call
    intervalMs,        \* options.intervalMs of the call
    pollElapsed,       \* Date.now() - startTime
    pollChecks,        \* the calls of checkFn, each with its outcome
    pollReturn,        \* what pollUntil resolved with
    \* GatewayManager
    gwStatus,          \* this.status
    gwProcess,         \* this.process: 0 for null, else the number of the process
    gwChildren,        \* the processes spawned: [alive, signal], in order
    gwInterval,        \* this.healthCheckInterval is not null
    gwTimers,          \* the number of setInterval timers not cleared
    gwStarts,          \* the start() calls: [pc, i, value], in order
    gwStops,           \* the stop() calls not over: [proc, by, resolved, timer]
    gwChecks,          \* the checkIfRunning calls awaiting checkHealth
    gwHealthChecks,    \* the checkHealth requests of health-check timers pending
    \* the login window of gateway:openLogin
    loginWindow,       \* "none", "open", "initializing" or "closed"
    loginCompleted,    \* the loginCompleted flag of the handler
    loginLoads,        \* the did-finish-load handlers awaiting the page text
    loginTimers,       \* the setTimeout callbacks scheduled and not yet run
    loginInits,        \* the calls of initBrokerageSession
    loginLog           \* the events of the window, in order

remoteVars == <<ledger, positions, rateResp, secdef>>
storeVars  == <<allocations, bufferPercent, lastUpdated, storeCall>>
anaVars    == <<anaPc, analysis>>
planVars   == <<planPc, underweightPositions, i, remainingCash, ordersToPlace, plan>>
execVars   == <<execPc, k, results, errors, ordersPlaced, ordersFailed,
                totalInvested, conversionResult, currencyConversion, sent,
                preview, affordCheck, lastResp, execResult, execBufferPercent>>
fillVars   == <<fillPc, elapsed, attempt, liveLog, pollResult, fillResult>>
pagesVars  == <<pagesPc, pageId, allPositions, pageRequests, pageBackend>>
httpVars   == <<httpPc, redirectCount, httpRequests, httpLog, httpResult>>
runVars    == <<runPc, runCall, runPlan, runK, placements>>
convVars   == <<convPc, ilsAmount, convSent, convResult>>
pollVars   == <<pollPc, timeoutMs, intervalMs, pollElapsed, pollChecks, pollReturn>>
gwVars     == <<gwStatus, gwProcess, gwChildren, gwInterval, gwTimers, gwStarts, gwStops,
                gwChecks, gwHealthChecks>>
loginVars  == <<loginWindow, loginCompleted, loginLoads, loginTimers, loginInits, loginLog>>
clientVars == <<pagesVars, httpVars, runVars, convVars, pollVars, gwVars, loginVars>>
coreVars   == <<remoteVars, storeVars, anaVars, planVars, execVars, callLog, fillVars>>
vars       == <<remoteVars, storeVars, anaVars, planVars, execVars, callLog, fillVars,
                clientVars>>

----------------------------------------------------------------------------
\* Fixed-point scale of money amounts.
Scale == 100 * 100

Usd(n) == n * Scale

Max(a, b) == IF a >= b THEN a ELSE b
Min(a, b) == IF a <= b THEN a ELSE b

\* Math.floor(a / b) for b > 0
Floor(a, b) == a \div b

\* String.prototype.toUpperCase on the symbols of the model
ToUpperCase(s) ==
    CASE s = "voo"     -> "VOO"
      [] s = "qqq"     -> "QQQ"
      [] s = "arkk"    -> "ARKK"
      [] s = "tsla"    -> "TSLA"
      [] s = "usd.ils" -> "USD.ILS"
      [] s = "Usd.Ils" -> "USD.ILS"
      [] s = "eur.usd" -> "EUR.USD"
      [] OTHER         -> s

----------------------------------------------------------------------------
\* analyzePortfolio

\* ledger[c]?.cashbalance || 0
CashBalance(l, c) == IF c \in DOMAIN l THEN l[c].cashbalance ELSE 0

\* positions.reduce((sum, p) => sum + p.mktValue, 0), both branches of the
\* currency test add p.mktValue
RECURSIVE StocksValueUSD(_)
StocksValueUSD(ps) ==
    IF ps = <<>> THEN 0 ELSE Usd(Head(ps).mktValue) + StocksValueUSD(Tail(ps))

\* p.ticker?.toUpperCase() === allocation.symbol.toUpperCase()
TickerMatches(p, symbol) ==
    /\ "ticker" \in DOMAIN p
    /\ ToUpperCase(p.ticker) = ToUpperCase(symbol)

\* positions.find(...): the index of the first match, 0 when there is none
RECURSIVE FindPositionFrom(_, _, _)
FindPositionFrom(ps, symbol, n) ==
    IF n > Len(ps) THEN 0
    ELSE IF TickerMatches(ps[n], symbol) THEN n
         ELSE FindPositionFrom(ps, symbol, n + 1)

FindPosition(ps, symbol) == FindPositionFrom(ps, symbol, 1)

\* RawSharesToBuy that divides by a price of at least one unit whatever
\* pricePerShare is
RawSharesToBuyAnyPrice(targetPercent, totalValueUSD, currentValueUSD, pricePerShare) ==
    Floor(targetPercent * totalValueUSD - 100 * currentValueUSD,
          100 * Max(pricePerShare, 1))

\* Math.floor(valueNeededUSD / pricePerShare) when pricePerShare > 0, else 0,
\* with valueNeededUSD = (targetPercent / 100) * totalValueUSD - currentValueUSD
RawSharesToBuy(targetPercent, totalValueUSD, currentValueUSD, pricePerShare) ==
    IF pricePerShare > 0
    THEN Floor(targetPercent * totalValueUSD - 100 * currentValueUSD,
               100 * pricePerShare)
    ELSE 0

\* ClampShares without the clamp at zero
ClampSharesUnclamped(n) == n

\* Math.max(0, sharesToBuy)
ClampShares(n) == Max(0, n)

\* one iteration of the loop over the allocations
AnalyzePosition(allocation, ps, totalValueUSD) ==
    LET n == FindPosition(ps, allocation.symbol)
        currentValueUSD == IF n = 0 THEN 0 ELSE Usd(ps[n].mktValue)
        currentShares   == IF n = 0 THEN 0 ELSE ps[n].position
        pricePerShare   == IF n = 0 THEN 0 ELSE Usd(ps[n].mktPrice)
        \* (currentValueUSD / totalValueUSD) * 100 when totalValueUSD > 0, else 0
        currentPercent  == IF totalValueUSD > 0
                           THEN [num |-> 100 * currentValueUSD, den |-> totalValueUSD]
                           ELSE [num |-> 0, den |-> 1]
        targetPercent   == allocation.targetPercent
        deviationPercent ==
            [num |-> targetPercent * currentPercent.den - currentPercent.num,
             den |-> currentPercent.den]
        sharesToBuy == RawSharesToBuy(targetPercent, totalValueUSD,
                                      currentValueUSD, pricePerShare)
        conid == IF "conid" \in DOMAIN allocation /\ allocation.conid # 0
                 THEN allocation.conid
                 ELSE IF n # 0 THEN ps[n].conid ELSE 0
    IN  [symbol           |-> allocation.symbol,
         conid            |-> conid,
         currentShares    |-> currentShares,
         currentValueUSD  |-> currentValueUSD,
         currentPercent   |-> currentPercent,
         targetPercent    |-> targetPercent,
         deviationPercent |-> deviationPercent,
         sharesToBuy      |-> ClampShares(sharesToBuy),
         estimatedCostUSD |-> ClampShares(sharesToBuy) * pricePerShare,
         pricePerShare    |-> pricePerShare]

\* what both variants of analyzePortfolio compute once the rate is settled
AnalysisWithRate(l, ps, allocs, ilsToUsdRate) ==
    LET cashUSD       == Usd(CashBalance(l, "USD"))
        cashILS       == CashBalance(l, "ILS")
        cashILSinUSD  == cashILS * ilsToUsdRate * (Scale \div 100)
        totalValueUSD == StocksValueUSD(ps) + cashUSD + cashILSinUSD
    IN  [status        |-> "ok",
         nan           |-> FALSE,
         totalValueUSD |-> totalValueUSD,
         cashUSD       |-> cashUSD,
         cashILS       |-> cashILS,
         ilsToUsdRate  |-> ilsToUsdRate,
         positions     |-> [n \in 1..Len(allocs) |->
                              AnalyzePosition(allocs[n], ps, totalValueUSD)]]

Threw(message) == [status |-> "threw", error |-> message]

\* rateResponse.rate, 0 standing for a missing (undefined) rate, which
\* !ilsToUsdRate treats alike
RateOf(resp) == IF "rate" \in DOMAIN resp THEN resp.rate ELSE 0

\* !ilsToUsdRate || ilsToUsdRate <= 0
RateInvalid(rate) == rate = 0 \/ rate <= 0

\* analyzePortfolio, the variant that requires the rate
AnalyzePortfolio(l, ps, resp, allocs) ==
    IF resp.status = "throw" THEN Threw("exchange rate request failed")
    ELSE IF RateInvalid(RateOf(resp))
         THEN Threw("Failed to get valid ILS/USD exchange rate")
         ELSE AnalysisWithRate(l, ps, allocs, RateOf(resp))

\* let ilsToUsdRate = 0.27 // Default fallback
DefaultRate == 27

\* The analysis when ilsToUsdRate is undefined: cashILS * undefined is NaN, so
\* totalValueUSD is NaN, totalValueUSD > 0 is false (currentPercent 0), and
\* sharesToBuy is NaN for a priced position.  NaN fields are held as 0 and the
\* record is marked nan; NaN > 0 and 0 > 0 are both false.
AnalysisNaN(l, ps, allocs) ==
    [status        |-> "ok",
     nan           |-> TRUE,
     totalValueUSD |-> 0,
     cashUSD       |-> Usd(CashBalance(l, "USD")),
     cashILS       |-> CashBalance(l, "ILS"),
     ilsToUsdRate  |-> 0,
     positions     |-> [n \in 1..Len(allocs) |->
                          [AnalyzePosition(allocs[n], ps, 0)
                             EXCEPT !.sharesToBuy = 0, !.estimatedCostUSD = 0]]]

\* analyzePortfolio, the variant of executor.ts: a failed lookup keeps the
\* default rate, and whatever rate a successful lookup carries is used
AnalyzePortfolioFallback(l, ps, resp, allocs) ==
    IF resp.status = "throw"
    THEN AnalysisWithRate(l, ps, allocs, DefaultRate)
    ELSE IF "rate" \in DOMAIN resp
         THEN AnalysisWithRate(l, ps, allocs, resp.rate)
         ELSE AnalysisNaN(l, ps, allocs)

----------------------------------------------------------------------------
\* findConid

\* COMMON_CONIDS[upperSymbol], 0 when the symbol is not in the table
CommonConid(upperSymbol) ==
    CASE upperSymbol = "SPY"    -> 756733
      [] upperSymbol = "QQQ"    -> 320227571
      [] upperSymbol = "VTI"    -> 97415584
      [] upperSymbol = "IVV"    -> 9579970
      [] upperSymbol = "VOO"    -> 97907157
      [] upperSymbol = "VEA"    -> 46048054
      [] upperSymbol = "VWO"    -> 41939883
      [] upperSymbol = "BND"    -> 43645865
      [] upperSymbol = "VNQ"    -> 27684070
      [] upperSymbol = "GLD"    -> 51529211
      [] upperSymbol = "AAPL"   -> 265598
      [] upperSymbol = "MSFT"   -> 272093
      [] upperSymbol = "GOOGL"  -> 208813719
      [] upperSymbol = "AMZN"   -> 3691937
      [] upperSymbol = "NVDA"   -> 4815747
      [] upperSymbol = "META"   -> 107113386
      [] upperSymbol = "TSLA"   -> 76792991
      [] OTHER                  -> 0

\* results[0].conid of a search that finds the symbol
SearchedConid == 4242

\* findConid(symbol), sd the outcome of searchSecurity: "found", "empty" or
\* "throw"; conid 0 stands for the null it returns on an empty result
FindConid(symbol, sd) ==
    IF CommonConid(ToUpperCase(symbol)) # 0
    THEN [status |-> "ok", conid |-> CommonConid(ToUpperCase(symbol))]
    ELSE CASE sd = "found" -> [status |-> "ok", conid |-> SearchedConid]
           [] sd = "empty" -> [status |-> "ok", conid |-> 0]
           [] OTHER        -> [status |-> "throw", conid |-> 0]

----------------------------------------------------------------------------
\* createAutoInvestPlan

\* a.deviationPercent > b.deviationPercent, on fractions with den > 0; the
\* positions of one analysis share the denominator totalValueUSD
DeviationGreater(a, b) ==
    IF a.deviationPercent.den = b.deviationPercent.den
    THEN a.deviationPercent.num > b.deviationPercent.num
    ELSE a.deviationPercent.num * b.deviationPercent.den
            > b.deviationPercent.num * a.deviationPercent.den

\* p.deviationPercent > 0 && p.sharesToBuy > 0 && p.pricePerShare > 0
IsUnderweight(p) ==
    /\ p.deviationPercent.num > 0
    /\ p.sharesToBuy > 0
    /\ p.pricePerShare > 0

\* analysis.positions.filter(IsUnderweight)
RECURSIVE FilterUnderweight(_)
FilterUnderweight(ps) ==
    IF ps = <<>> THEN <<>>
    ELSE IF IsUnderweight(Head(ps))
         THEN <<Head(ps)>> \o FilterUnderweight(Tail(ps))
         ELSE FilterUnderweight(Tail(ps))

\* p put into a list sorted by descending deviation, behind every element
\* whose deviation is not smaller (the sort is stable)
RECURSIVE InsertByDeviation(_, _)
InsertByDeviation(sorted, p) ==
    IF sorted = <<>> THEN <<p>>
    ELSE IF DeviationGreater(p, Head(sorted))
         THEN <<p>> \o sorted
         ELSE <<Head(sorted)>> \o InsertByDeviation(Tail(sorted), p)

\* .sort((a, b) => b.deviationPercent - a.deviationPercent)
RECURSIVE SortByDeviationFrom(_, _)
SortByDeviationFrom(sorted, rest) ==
    IF rest = <<>> THEN sorted
    ELSE SortByDeviationFrom(InsertByDeviation(sorted, Head(rest)), Tail(rest))

SortByDeviation(ps) == SortByDeviationFrom(<<>>, ps)

UnderweightPositions(a) == SortByDeviation(FilterUnderweight(a.positions))

\* totalCashUSD = analysis.cashUSD + ilsToConvert * analysis.ilsToUsdRate
TotalCashUSD(a) == a.cashUSD + a.cashILS * a.ilsToUsdRate * (Scale \div 100)

\* availableUSD = totalCashUSD - totalCashUSD * bufferPercent
AvailableUSD(a, bp) == TotalCashUSD(a) - (TotalCashUSD(a) * bp) \div 100

\* if (remainingCash < 10) break
MinRemainingCash == 10

\* SharesForCandidate buying all the cash affords, beyond the target
SharesAffordableOnly(cash, position) ==
    [shares |-> Floor(cash, position.pricePerShare), reason |-> "partial"]

\* SharesForCandidate buying up to the target whatever the cash
SharesIgnoringCash(cash, position) ==
    [shares |-> position.sharesToBuy, reason |-> "target"]

\* the shares of one candidate: Math.floor(remainingCash / pricePerShare),
\* capped by the shares that reach the target
SharesForCandidate(cash, position) ==
    LET maxSharesAffordable == Floor(cash, position.pricePerShare)
        sharesToReachTarget == position.sharesToBuy
    IN  IF maxSharesAffordable >= sharesToReachTarget
        THEN [shares |-> sharesToReachTarget, reason |-> "target"]
        ELSE [shares |-> maxSharesAffordable, reason |-> "partial"]

\* if (remainingCash < position.pricePerShare) continue
CannotAffordOneShare(cash, position) == cash < position.pricePerShare

\* if (remainingCash < 10) break
WalkBreaks(cash) == cash < Usd(MinRemainingCash)

\* a priority that does not follow the loop index
PriorityFixed(n) == 1

\* priority: i + 1 for the 0-based loop index, which is the 1-based n
PriorityOf(n) == n

\* a skip that ends the loop
SkipEndsWalk(next) == [next EXCEPT !.status = "done"]

\* continue: the loop goes on with the next index, past the break test
SkipCandidate(next) == next

\* One iteration of the greedy loop, for the 1-based index w.i.  w is the
\* loop state [i, remainingCash, ordersToPlace, status]; status becomes
\* "done" when the loop exits and "threw" when findConid rejects.
WalkStep(w, cands, sd) ==
    LET position == cands[w.i]
        next     == [w EXCEPT !.i = w.i + 1,
                               !.status = IF w.i + 1 > Len(cands)
                                          THEN "done" ELSE "walk"]
        pick     == SharesForCandidate(w.remainingCash, position)
        cost     == pick.shares * position.pricePerShare
        found    == IF position.conid # 0
                    THEN [status |-> "ok", conid |-> position.conid]
                    ELSE FindConid(position.symbol, sd)
        order    == [symbol        |-> position.symbol,
                     conid         |-> found.conid,
                     shares        |-> pick.shares,
                     estimatedCost |-> cost,
                     pricePerShare |-> position.pricePerShare,
                     priority      |-> PriorityOf(w.i),
                     reason        |-> pick.reason]
        bought   == IF pick.shares > 0 /\ found.conid # 0
                    THEN [next EXCEPT !.ordersToPlace = Append(@, order),
                                      !.remainingCash = @ - cost]
                    ELSE next
    IN  IF CannotAffordOneShare(w.remainingCash, position) THEN SkipCandidate(next)
        ELSE IF pick.shares > 0 /\ found.status = "throw"
             THEN [w EXCEPT !.status = "threw"]
             ELSE IF WalkBreaks(bought.remainingCash)
                  THEN [bought EXCEPT !.status = "done"]
                  ELSE bought

\* the loop state before the first iteration
WalkInit(cands, availableUSD) ==
    [i             |-> 1,
     remainingCash |-> availableUSD,
     ordersToPlace |-> <<>>,
     status        |-> IF cands = <<>> THEN "done" ELSE "walk"]

\* the whole loop
RECURSIVE Walk(_, _, _)
Walk(w, cands, sd) ==
    IF w.status # "walk" THEN w ELSE Walk(WalkStep(w, cands, sd), cands, sd)

\* NoCashPlan reporting the cash before the buffer
NoCashPlanReportingCash(a) ==
    [status            |-> "ok",
     totalAvailableUSD |-> TotalCashUSD(a),
     ilsToConvert      |-> a.cashILS,
     ilsToUsdRate      |-> a.ilsToUsdRate,
     ordersToPlace     |-> <<>>,
     summary           |-> "no-cash"]

\* the plan returned when availableUSD <= 0
NoCashPlan(a) ==
    [status            |-> "ok",
     totalAvailableUSD |-> 0,
     ilsToConvert      |-> a.cashILS,
     ilsToUsdRate      |-> a.ilsToUsdRate,
     ordersToPlace     |-> <<>>,
     summary           |-> "no-cash"]

\* the plan returned after the loop
WalkedPlan(a, availableUSD, orders) ==
    [status            |-> "ok",
     totalAvailableUSD |-> availableUSD,
     ilsToConvert      |-> a.cashILS,
     ilsToUsdRate      |-> a.ilsToUsdRate,
     ordersToPlace     |-> orders,
     summary           |-> IF Len(orders) > 0 THEN "planning" ELSE "no-orders"]

\* the plan returned when the loop ends in the state w
PlanAfterWalk(a, availableUSD, w) ==
    IF w.status = "threw" THEN Threw("findConid failed")
    ELSE WalkedPlan(a, availableUSD, w.ordersToPlace)

\* createAutoInvestPlan from the analysis a on: the buffer bp read from the
\* store, the loop, the plan
PlanFor(a, bp, sd) ==
    IF a.status = "threw" THEN a
    ELSE IF AvailableUSD(a, bp) <= 0 THEN NoCashPlan(a)
    ELSE LET cands == UnderweightPositions(a)
             w     == Walk(WalkInit(cands, AvailableUSD(a, bp)), cands, sd)
         IN  PlanAfterWalk(a, AvailableUSD(a, bp), w)

\* createAutoInvestPlan as one function of what it reads
CreateAutoInvestPlan(l, ps, resp, allocs, bp, sd) ==
    PlanFor(AnalyzePortfolio(l, ps, resp, allocs), bp, sd)

\* the iteration w.i reaches await searchSecurity(symbol) inside findConid:
\* the candidate gets shares, has no conid, and its symbol is not among
\* COMMON_CONIDS
AwaitsSearch(w, cands) ==
    LET position == cands[w.i]
    IN  /\ ~CannotAffordOneShare(w.remainingCash, position)
        /\ SharesForCandidate(w.remainingCash, position).shares > 0
        /\ position.conid = 0
        /\ CommonConid(ToUpperCase(position.symbol)) = 0

\* the loop, from the state w on, waits for a search at least once
RECURSIVE WalkAwaits(_, _, _)
WalkAwaits(w, cands, sd) ==
    /\ w.status = "walk"
    /\ \/ AwaitsSearch(w, cands)
       \/ WalkAwaits(WalkStep(w, cands, sd), cands, sd)

\* createAutoInvestPlan, after the analysis a, waits for a search before it
\* returns
PlanAwaits(a, bp, sd) ==
    /\ a.status # "threw"
    /\ AvailableUSD(a, bp) > 0
    /\ LET cands == UnderweightPositions(a)
       IN  WalkAwaits(WalkInit(cands, AvailableUSD(a, bp)), cands, sd)

----------------------------------------------------------------------------
\* canAffordOrder.  The numbers of a what-if response are strings, held as
\* sequences of characters.

IsDigit(c) == c \in {"0", "1", "2", "3", "4", "5", "6", "7", "8", "9"}

DigitValue(c) ==
    CASE c = "0" -> 0 [] c = "1" -> 1 [] c = "2" -> 2 [] c = "3" -> 3
      [] c = "4" -> 4 [] c = "5" -> 5 [] c = "6" -> 6 [] c = "7" -> 7
      [] c = "8" -> 8 [] OTHER -> 9

\* the value of the longest prefix of digits, and whether there is a digit
RECURSIVE ParseDigits(_, _, _)
ParseDigits(chars, acc, seen) ==
    IF chars # <<>> /\ IsDigit(Head(chars))
    THEN ParseDigits(Tail(chars), 10 * acc + DigitValue(Head(chars)), TRUE)
    ELSE [nan |-> ~seen, value |-> acc]

RECURSIVE SkipSpaces(_)
SkipSpaces(chars) ==
    IF chars # <<>> /\ Head(chars) = " " THEN SkipSpaces(Tail(chars)) ELSE chars

\* parseFloat on strings without a decimal point or exponent: leading white
\* space, an optional sign, then digits up to the first other character
ParseFloat(chars) ==
    LET t == SkipSpaces(chars)
    IN  IF t # <<>> /\ Head(t) = "-"
        THEN LET r == ParseDigits(Tail(t), 0, FALSE)
             IN  [nan |-> r.nan, value |-> 0 - r.value]
        ELSE IF t # <<>> /\ Head(t) = "+"
             THEN ParseDigits(Tail(t), 0, FALSE)
             ELSE ParseDigits(t, 0, FALSE)

\* parseFloat(s) || 0
ParseFloatOr0(chars) ==
    IF ParseFloat(chars).nan THEN 0 ELSE ParseFloat(chars).value

\* if (whatifResponse.error): the field is there and is not the empty string
HasError(resp) == "error" \in DOMAIN resp /\ resp.error # ""

\* AffordsBuffer with a strict comparison
AffordsBufferStrictly(equityAfter, currentEquity, bp) ==
    100 * equityAfter > currentEquity * bp

\* AffordsBuffer ignoring the buffer
AffordsAnything(equityAfter, currentEquity, bp) == TRUE

\* equityAfter >= currentEquity * bufferPercent, bp in percent points
AffordsBuffer(equityAfter, currentEquity, bp) ==
    100 * equityAfter >= currentEquity * bp

\* canAffordOrder(whatifResponse, bufferPercent); a response with no error
\* and without its amount or equity object makes it throw a TypeError.
\* bufferAmount is held times 100.
CanAffordOrder(resp, bp) ==
    IF HasError(resp)
    THEN [status |-> "ok", canAfford |-> FALSE, reason |-> resp.error,
          orderTotal |-> 0, currentEquity |-> 0, equityAfter |-> 0,
          bufferAmount100 |-> 0, commission |-> 0]
    ELSE IF ~({"amount", "equity"} \subseteq DOMAIN resp)
    THEN Threw("TypeError")
    ELSE LET orderTotal    == ParseFloatOr0(resp.amount.total)
             currentEquity == ParseFloatOr0(resp.equity.current)
             equityAfter   == ParseFloatOr0(resp.equity.after)
             commission    == ParseFloatOr0(resp.amount.commission)
             canAfford     == AffordsBuffer(equityAfter, currentEquity, bp)
         IN  [status |-> "ok", canAfford |-> canAfford,
              reason |-> IF canAfford THEN ""
                         ELSE "Insufficient funds after applying safety buffer",
              orderTotal |-> orderTotal, currentEquity |-> currentEquity,
              equityAfter |-> equityAfter,
              bufferAmount100 |-> currentEquity * bp,
              commission |-> commission]

----------------------------------------------------------------------------
\* The inputs: what the gateway answers and what the store holds.

\* the longest allocation list of the model
MaxAllocs == 3

\* the largest USD cash balance is MaxCashSteps * CashStep
MaxCashSteps == 3

CashStep == 50

Position(ticker, conid, shares, price) ==
    [ticker |-> ticker, conid |-> conid, position |-> shares,
     mktPrice |-> price, mktValue |-> shares * price, currency |-> "USD"]

\* a position whose ticker is null
Untickered(conid, shares, price) ==
    [conid |-> conid, position |-> shares,
     mktPrice |-> price, mktValue |-> shares * price, currency |-> "USD"]

PosVOO   == Position("VOO", 97907157, 1, 40)
PosQQQ   == Position("QQQ", 320227571, 2, 3)
PosARKK  == Position("ARKK", 0, 1, 5)
PosBig   == Position("VOO", 97907157, 10, 40)
PosZero  == Position("QQQ", 320227571, 3, 0)
PosNull  == Untickered(555, 1, 40)
PosNear  == Position("ARKK", 0, 18, 5)
PosEven  == Position("ARKK", 0, 8, 5)
PosMost  == Position("QQQ", 320227571, 40, 3)
PosSome  == Position("QQQ", 320227571, 15, 3)
PosFive  == Position("ARKK", 0, 5, 5)

PositionLists ==
    { <<>>,
      <<PosVOO, PosQQQ, PosARKK>>,
      <<PosQQQ, PosVOO>>,
      <<PosNull, PosARKK, PosVOO>>,
      <<PosBig, PosQQQ>>,
      <<PosVOO, PosZero, PosARKK>>,
      <<PosNear>>,
      <<PosVOO, PosEven, PosMost>>,
      <<PosNull, PosVOO, PosSome, PosFive>> }

Alloc(symbol, pct) == [symbol |-> symbol, targetPercent |-> pct]

AllocationMenu ==
    { Alloc("VOO", 50), Alloc("qqq", 30), Alloc("ARKK", 20),
      [symbol |-> "ARKK", targetPercent |-> 50, conid |-> 777] }

RECURSIVE SeqsUpTo(_, _)
\* the sequences over S of length at most n
SeqsUpTo(S, n) ==
    IF n = 0 THEN { <<>> }
    ELSE LET shorter == SeqsUpTo(S, n - 1)
         IN  shorter \cup { Append(q, x) : q \in shorter, x \in S }

\* the largest sum of targetPercent setAllocations accepts
MaxTotalPercent == 100

\* allocations.reduce((sum, a) => sum + a.targetPercent, 0)
RECURSIVE TotalTargetPercent(_)
TotalTargetPercent(list) ==
    IF list = <<>> THEN 0
    ELSE Head(list).targetPercent + TotalTargetPercent(Tail(list))

\* the lists the store can hold: setAllocations accepts no total above 100
AllocationLists ==
    { list \in SeqsUpTo(AllocationMenu, MaxAllocs) :
         TotalTargetPercent(list) <= MaxTotalPercent }

UsdBalances == { n * CashStep : n \in 0..MaxCashSteps } \cup { 8, 12, -20 }

Ledgers ==
    { [c \in {"USD"} |-> [cashbalance |-> u]] : u \in UsdBalances }
    \cup { [c \in {"USD", "ILS"} |->
              [cashbalance |-> IF c = "USD" THEN u ELSE s]] :
           u \in {0, CashStep}, s \in {100, 200} }
    \cup { [c \in {"ILS"} |-> [cashbalance |-> 200]] }

RateResponses ==
    { [status |-> "throw"], [status |-> "ok"],
      [status |-> "ok", rate |-> 0], [status |-> "ok", rate |-> -25],
      [status |-> "ok", rate |-> 25] }

BufferPercents == {0, 5, 100}

SecdefOutcomes == {"found", "empty", "throw"}

NoValue == [status |-> "none"]

\* getAllPositions has not been called
PagesIdle ==
    /\ pagesPc = "idle" /\ pageId = 0 /\ allPositions = <<>>
    /\ pageRequests = <<>> /\ pageBackend = <<>>

\* ibkrRequest has not been called
HttpIdle ==
    /\ httpPc = "idle" /\ redirectCount = 0 /\ httpRequests = 0
    /\ httpLog = <<>> /\ httpResult = NoValue

\* the requests the handler of 'autoinvest:execute' may receive
MaxRuns == 2

Runs == 1..MaxRuns

\* no 'autoinvest:execute' request has arrived
RunsIdle ==
    /\ runPc = [r \in Runs |-> "idle"] /\ runCall = [r \in Runs |-> NoValue]
    /\ runPlan = [r \in Runs |-> NoValue]
    /\ runK = [r \in Runs |-> 0] /\ placements = <<>>

\* convertIlsToUsd has not been called
ConvIdle ==
    /\ convPc = "idle" /\ ilsAmount = 0 /\ convSent = <<>> /\ convResult = NoValue

\* no pollUntil call has been made
PollIdle ==
    /\ pollPc = "idle" /\ timeoutMs = 0 /\ intervalMs = 0 /\ pollElapsed = 0
    /\ pollChecks = <<>> /\ pollReturn = NoValue

\* the GatewayManager as constructed
GatewayIdle ==
    /\ gwStatus = "stopped" /\ gwProcess = 0 /\ gwChildren = <<>>
    /\ gwInterval = FALSE /\ gwTimers = 0
    /\ gwStarts = <<>> /\ gwStops = <<>>
    /\ gwChecks = 0 /\ gwHealthChecks = 0

\* no login window has been opened
LoginIdle ==
    /\ loginWindow = "none" /\ loginCompleted = FALSE /\ loginLoads = 0
    /\ loginTimers = 0 /\ loginInits = 0 /\ loginLog = <<>>

ClientIdle == PagesIdle /\ HttpIdle /\ RunsIdle /\ ConvIdle /\ PollIdle /\ GatewayIdle /\ LoginIdle

\* the analyzer, planner, executor, store and fill wait have not been called
CoreIdle ==
    /\ anaPc = "idle" /\ analysis = NoValue
    /\ planPc = "idle" /\ underweightPositions = <<>> /\ i = 0
    /\ remainingCash = 0 /\ ordersToPlace = <<>> /\ plan = NoValue
    /\ execPc = "idle" /\ k = 0 /\ results = <<>> /\ errors = <<>>
    /\ ordersPlaced = 0 /\ ordersFailed = 0 /\ totalInvested = 0
    /\ conversionResult = NoValue
    /\ currencyConversion = NoValue /\ sent = <<>> /\ preview = NoValue
    /\ affordCheck = NoValue /\ lastResp = NoValue
    /\ execResult = NoValue /\ execBufferPercent = 0
    /\ lastUpdated = 0 /\ storeCall = NoValue
    /\ callLog = <<>>
    /\ fillPc = "idle" /\ elapsed = 0 /\ attempt = 0 /\ liveLog = <<>>
    /\ pollResult = FALSE /\ fillResult = NoValue

\* nothing has been called yet
Idle == CoreIdle /\ ClientIdle

\* an account and a store nothing is asked of, and no call of the analyzer,
\* planner, executor, store or fill wait
CoreQuiet ==
    /\ ledger = [c \in {"USD"} |-> [cashbalance |-> 0]]
    /\ positions = <<>>
    /\ rateResp = [status |-> "ok", rate |-> 25]
    /\ secdef = "found"
    /\ allocations = <<>>
    /\ bufferPercent = 5
    /\ CoreIdle

----------------------------------------------------------------------------
\* SpecAnalyze: the two variants of analyzePortfolio on the same inputs

InitAnalyze ==
    /\ ledger \in Ledgers
    /\ positions \in PositionLists
    /\ rateResp \in RateResponses
    /\ secdef = "found"
    /\ allocations \in AllocationLists
    /\ bufferPercent = 5
    /\ Idle

\* a call of analyzePortfolio (fn says which of the two) whose first await,
\* getAccountLedger, has settled with l; what it reads later is filled in
\* as the awaits settle
Call(fn, l) ==
    [fn |-> fn, stage |-> "positions", ledger |-> l, positions |-> NoValue,
     rateResp |-> NoValue, allocations |-> NoValue, returned |-> NoValue]

\* the latest call
LastCall == callLog[Len(callLog)]

\* the call in progress, if any
CallInProgress == callLog # <<>> /\ callLog[Len(callLog)].stage # "done"

\* analyzePortfolio of part_000 is called and await getAccountLedger settles
Analyze ==
    /\ anaPc = "idle" /\ planPc = "idle" /\ execPc = "idle"
    /\ callLog = <<>>
    /\ callLog' = <<Call("strict", ledger)>>
    /\ UNCHANGED <<remoteVars, clientVars, storeVars, anaVars, fillVars, planVars, execVars>>

\* analyzePortfolio of executor.ts is called and await getAccountLedger
\* settles
AnalyzeFallback ==
    /\ anaPc = "idle" /\ planPc = "idle" /\ execPc = "idle"
    /\ callLog = <<>>
    /\ callLog' = <<Call("fallback", ledger)>>
    /\ UNCHANGED <<remoteVars, clientVars, storeVars, anaVars, fillVars, planVars, execVars>>

\* await getAllPositions(accountId) settles
GetPositions ==
    /\ CallInProgress
    /\ callLog[Len(callLog)].stage = "positions"
    /\ callLog' = [callLog EXCEPT ![Len(callLog)] =
                      [@ EXCEPT !.stage = "rate", !.positions = positions]]
    /\ UNCHANGED <<remoteVars, clientVars, storeVars, anaVars, planVars, execVars, fillVars>>

\* what the call returns when await getExchangeRate settles with resp and
\* the store holds allocs: the ledger and the positions are those of the
\* earlier awaits
AnalysisOf(call, resp, allocs) ==
    IF call.fn = "fallback"
    THEN AnalyzePortfolioFallback(call.ledger, call.positions, resp, allocs)
    ELSE AnalyzePortfolio(call.ledger, call.positions, resp, allocs)

\* the call record once the analysis a has been returned
Finished(call, resp, allocs, a) ==
    [call EXCEPT !.stage = "done", !.rateResp = resp, !.allocations = allocs,
                 !.returned = a]

\* await getExchangeRate('ILS', 'USD') settles; the rest of the call is
\* synchronous: it reads the stored allocations and returns
GetRate ==
    /\ CallInProgress
    /\ callLog[Len(callLog)].stage = "rate"
    /\ planPc = "idle" /\ execPc = "idle"
    /\ LET call == callLog[Len(callLog)]
           a    == AnalysisOf(call, rateResp, allocations)
       IN  /\ analysis' = a
           /\ anaPc' = call.fn
           /\ callLog' = [callLog EXCEPT ![Len(callLog)] =
                             Finished(call, rateResp, allocations, a)]
    /\ UNCHANGED <<remoteVars, clientVars, storeVars, planVars, execVars, fillVars>>

\* the USD cash of the account pays for one share of the position n
CashBuys(n) ==
    /\ positions[n].mktPrice > 0
    /\ ledger["USD"].cashbalance >= positions[n].mktPrice

\* between the ledger answer and the positions answer of a call, a buy order
\* of the account fills: as many whole shares as the USD cash pays for, of
\* the first position n that it buys a share of
AccountTrades ==
    /\ CallInProgress
    /\ callLog[Len(callLog)].stage = "positions"
    /\ "USD" \in DOMAIN ledger
    /\ \E n \in 1..Len(positions) :
          /\ CashBuys(n)
          /\ \A m \in 1..(n - 1) : ~CashBuys(m)
          /\ LET price  == positions[n].mktPrice
                 shares == Floor(ledger["USD"].cashbalance, price)
             IN  /\ ledger' = [ledger EXCEPT !["USD"].cashbalance = @ - shares * price]
                 /\ positions' = [positions EXCEPT ![n] =
                                     [@ EXCEPT !.position = @ + shares,
                                               !.mktValue = @ + shares * price]]
    /\ UNCHANGED <<rateResp, secdef, clientVars, storeVars, anaVars, planVars, execVars,
                   callLog, fillVars>>

NextAnalyze == Analyze \/ AnalyzeFallback \/ GetPositions \/ GetRate \/ AccountTrades

SpecAnalyze == InitAnalyze /\ [][NextAnalyze]_vars

\* the analysis of part_000 has returned a PortfolioAnalysis
StrictAnalysisReturned == anaPc = "strict" /\ analysis.status = "ok"

\* valueNeededUSD * 100, from the fields of the returned analysis
NeededTimes100(p) ==
    p.targetPercent * analysis.totalValueUSD - 100 * p.currentValueUSD

\* C8: for every configured allocation analyzePortfolio yields a whole,
\* non-negative sharesToBuy: 0 when the price is 0 or less than one share is
\* needed (also when the position is above its target), otherwise the largest
\* s with s * price <= valueNeeded; and estimatedCostUSD = sharesToBuy * price.
C8_SharesToBuyFloorClamped ==
    StrictAnalysisReturned =>
        /\ Len(analysis.positions) = Len(LastCall.allocations)
        /\ \A n \in 1..Len(LastCall.allocations) :
             LET p == analysis.positions[n]
                 d == 100 * p.pricePerShare
             IN  /\ p.symbol = LastCall.allocations[n].symbol
                 /\ p.targetPercent = LastCall.allocations[n].targetPercent
                 /\ p.sharesToBuy \in Nat
                 /\ p.pricePerShare >= 0
                 /\ p.pricePerShare = 0 => p.sharesToBuy = 0
                 /\ p.pricePerShare > 0 =>
                      \/ p.sharesToBuy = 0 /\ NeededTimes100(p) < d
                      \/ /\ p.sharesToBuy >= 1
                         /\ p.sharesToBuy * d <= NeededTimes100(p)
                         /\ NeededTimes100(p) < (p.sharesToBuy + 1) * d
                 /\ p.estimatedCostUSD = p.sharesToBuy * p.pricePerShare

\* C8 witness: one analysis holds a priced position far above its target
\* (sharesToBuy 0) and a priced position that needs shares
C8_Witness ==
    /\ StrictAnalysisReturned
    /\ \E n, m \in 1..Len(analysis.positions) :
         /\ analysis.positions[n].pricePerShare > 0
         /\ NeededTimes100(analysis.positions[n])
               < 0 - 100 * analysis.positions[n].pricePerShare
         /\ analysis.positions[n].sharesToBuy = 0
         /\ analysis.positions[m].sharesToBuy >= 2
         /\ analysis.positions[m].estimatedCostUSD > 0

\* C10: analyzePortfolio never returns an analysis whose exchange rate is
\* missing, zero or negative; a failed or non-positive rate lookup makes the
\* analysis fail.
C10_RateAlwaysPositive ==
    anaPc # "idle" =>
        /\ analysis.status = "ok" => ~analysis.nan /\ analysis.ilsToUsdRate > 0
        /\ (LastCall.rateResp.status = "throw" \/ RateInvalid(RateOf(LastCall.rateResp)))
              => analysis.status = "threw"

----------------------------------------------------------------------------
\* SpecPlan: createAutoInvestPlan, one action per await of the greedy loop

\* the rate answers of the planner's runs: a failed lookup and a rate
PlanRateResponses ==
    { [status |-> "throw"], [status |-> "ok", rate |-> 25] }

InitPlan ==
    /\ ledger \in Ledgers
    /\ positions \in PositionLists
    /\ rateResp \in PlanRateResponses
    /\ secdef \in SecdefOutcomes
    /\ allocations \in AllocationLists
    /\ bufferPercent \in BufferPercents
    /\ Idle

\* the loop state held in the variables
LoopState ==
    [i |-> i, remainingCash |-> remainingCash,
     ordersToPlace |-> ordersToPlace, status |-> "walk"]

\* createAutoInvestPlan is called: it calls analyzePortfolio, whose first
\* await settles
PlanStart ==
    /\ planPc = "idle"
    /\ anaPc = "idle"
    /\ execPc = "idle"
    /\ callLog = <<>>
    /\ planPc' = "analysis"
    /\ callLog' = <<Call("strict", ledger)>>
    /\ UNCHANGED <<remoteVars, clientVars, storeVars, anaVars, fillVars, execVars,
                   underweightPositions, i, remainingCash, ordersToPlace, plan>>

\* the last await of analyzePortfolio settles and createAutoInvestPlan goes
\* on with the analysis returned, up to the first iteration of the loop: the
\* buffer read from the store, the available cash, the sorted candidates
PlanAnalysed ==
    /\ planPc = "analysis"
    /\ execPc = "idle"
    /\ CallInProgress
    /\ callLog[Len(callLog)].stage = "rate"
    /\ LET call  == callLog[Len(callLog)]
           a     == AnalysisOf(call, rateResp, allocations)
           avail == AvailableUSD(a, bufferPercent)
           cands == UnderweightPositions(a)
       IN  /\ analysis' = a
           /\ anaPc' = "strict"
           /\ callLog' = [callLog EXCEPT ![Len(callLog)] =
                             Finished(call, rateResp, allocations, a)]
           /\ IF a.status = "threw"
              THEN /\ planPc' = "threw"
                   /\ plan' = a
                   /\ UNCHANGED <<underweightPositions, i, remainingCash, ordersToPlace>>
              ELSE IF avail <= 0
              THEN /\ planPc' = "planned"
                   /\ plan' = NoCashPlan(a)
                   /\ UNCHANGED <<underweightPositions, i, remainingCash, ordersToPlace>>
              ELSE /\ underweightPositions' = cands
                   /\ i' = 1
                   /\ remainingCash' = avail
                   /\ ordersToPlace' = <<>>
                   /\ IF cands = <<>>
                      THEN planPc' = "planned" /\ plan' = WalkedPlan(a, avail, <<>>)
                      ELSE planPc' = "walk" /\ plan' = plan
    /\ UNCHANGED <<remoteVars, clientVars, storeVars, fillVars, execVars>>

\* one iteration of the loop; the plan is returned with the last one
PlanStep ==
    /\ planPc = "walk"
    /\ LET w == WalkStep(LoopState, underweightPositions, secdef)
       IN  /\ i' = w.i
           /\ remainingCash' = w.remainingCash
           /\ ordersToPlace' = w.ordersToPlace
           /\ planPc' = CASE w.status = "walk"  -> "walk"
                          [] w.status = "done"  -> "planned"
                          [] OTHER              -> "threw"
           /\ plan' = CASE w.status = "walk"  -> plan
                        [] w.status = "done"  ->
                             WalkedPlan(analysis,
                                        AvailableUSD(analysis, bufferPercent),
                                        w.ordersToPlace)
                        [] OTHER              -> Threw("findConid failed")
    /\ UNCHANGED <<remoteVars, clientVars, storeVars, callLog, fillVars, anaVars, underweightPositions, execVars>>

NextPlan == PlanStart \/ GetPositions \/ PlanAnalysed \/ PlanStep \/ AccountTrades

SpecPlan == InitPlan /\ [][NextPlan]_vars

RECURSIVE SumEstimatedCost(_)
SumEstimatedCost(orders) ==
    IF orders = <<>> THEN 0
    ELSE Head(orders).estimatedCost + SumEstimatedCost(Tail(orders))

\* C1, the state part: while the loop runs and when the plan is returned,
\* remaining cash is not negative and equals the available cash less the
\* cost of the orders planned so far; the plan's total cost is within
\* totalAvailableUSD.
C1_LedgerInvariant ==
    /\ planPc \in {"walk", "planned"} /\ underweightPositions # <<>> =>
         /\ remainingCash >= 0
         /\ remainingCash + SumEstimatedCost(ordersToPlace)
               = AvailableUSD(analysis, bufferPercent)
    /\ planPc = "planned" =>
         /\ SumEstimatedCost(plan.ordersToPlace) <= plan.totalAvailableUSD
         /\ plan.totalAvailableUSD >= 0

\* C1, the step part: the ledger starts at total cash minus buffer, never
\* increases, and an order is added only with a cost within the cash that
\* remained just before it.
C1_LedgerStep ==
    /\ planPc = "analysis" /\ planPc' = "walk" =>
         remainingCash' = TotalCashUSD(analysis')
                            - (TotalCashUSD(analysis') * bufferPercent) \div 100
    /\ planPc = "walk" =>
         /\ remainingCash' <= remainingCash
         /\ Len(ordersToPlace') \in {Len(ordersToPlace), Len(ordersToPlace) + 1}
         /\ Len(ordersToPlace') = Len(ordersToPlace) =>
              ordersToPlace' = ordersToPlace /\ remainingCash' = remainingCash
         /\ Len(ordersToPlace') > Len(ordersToPlace) =>
              LET o == ordersToPlace'[Len(ordersToPlace')]
              IN  /\ o.estimatedCost <= remainingCash
                  /\ o.estimatedCost > 0
                  /\ remainingCash' = remainingCash - o.estimatedCost
                  /\ SubSeq(ordersToPlace', 1, Len(ordersToPlace)) = ordersToPlace

\* C1: In createAutoInvestPlan the remaining cash starts at the available
\* cash, never increases, never goes negative, every planned order costs at
\* most the cash remaining when it was added, and the plan's total cost is at
\* most totalAvailableUSD.
C1_RemainingCashLedger == []C1_LedgerInvariant /\ [][C1_LedgerStep]_vars

\* C1 witness: a returned plan of two orders, the second a partial fill, that
\* leaves cash over
C1_Witness ==
    /\ planPc = "planned"
    /\ Len(plan.ordersToPlace) = 2
    /\ plan.ordersToPlace[2].reason = "partial"
    /\ remainingCash > 0
    /\ remainingCash < plan.totalAvailableUSD

----------------------------------------------------------------------------
\* SpecAfford: canAffordOrder on what-if responses

Chars10000 == <<"1", "0", "0", "0", "0">>
Chars400   == <<"4", "0", "0">>
Chars500   == <<"5", "0", "0">>
Chars600   == <<"6", "0", "0">>

EquityStrings ==
    { Chars10000, Chars400, Chars500, Chars600, <<"0">>, <<>>,
      <<"-", "5", "0">>, <<"1", "0", ",", "0", "0", "0">>,
      <<" ", "6", "0", "0", " ", "U", "S", "D">>, <<"N", "/", "A">> }

WhatIf(current, after) ==
    [amount |-> [amount |-> Chars400, commission |-> <<"1">>, total |-> <<"4", "0", "1">>],
     equity |-> [current |-> current, change |-> <<"-", "1">>, after |-> after],
     warn   |-> ""]

WhatIfResponses ==
    { WhatIf(c, a) : c \in EquityStrings, a \in EquityStrings }
    \cup { [WhatIf(c, a) EXCEPT !.warn = "w"] @@ [error |-> e] :
             c \in {Chars10000}, a \in {Chars400, Chars600},
             e \in {"", "Insufficient buying power"} }
    \cup { [error |-> "Order rejected"], [warn |-> "no data"] }

AffordBuffers == {0, 5, 6, 100}

InitAfford ==
    /\ ledger = [c \in {"USD"} |-> [cashbalance |-> 0]]
    /\ positions = <<>>
    /\ rateResp = [status |-> "ok", rate |-> 25]
    /\ secdef = "found"
    /\ allocations = <<>>
    /\ bufferPercent \in AffordBuffers
    /\ anaPc = "idle" /\ analysis = NoValue
    /\ planPc = "idle" /\ underweightPositions = <<>> /\ i = 0
    /\ remainingCash = 0 /\ ordersToPlace = <<>> /\ plan = NoValue
    /\ execPc = "afford" /\ k = 0 /\ results = <<>> /\ errors = <<>>
    /\ ordersPlaced = 0 /\ ordersFailed = 0 /\ totalInvested = 0
    /\ conversionResult = NoValue
    /\ currencyConversion = NoValue /\ sent = <<>>
    /\ preview \in WhatIfResponses
    /\ affordCheck = NoValue /\ lastResp = NoValue
    /\ execResult = NoValue /\ execBufferPercent = 0
    /\ lastUpdated = 0 /\ storeCall = NoValue
    /\ callLog = <<>>
    /\ fillPc = "idle" /\ elapsed = 0 /\ attempt = 0 /\ liveLog = <<>>
    /\ pollResult = FALSE /\ fillResult = NoValue
    /\ ClientIdle

\* canAffordOrder(preview, bufferPercent) is called
CheckAfford ==
    /\ execPc = "afford"
    /\ affordCheck = NoValue
    /\ affordCheck' = CanAffordOrder(preview, bufferPercent)
    /\ UNCHANGED <<remoteVars, clientVars, storeVars, callLog, fillVars, anaVars, planVars, execPc, k, results,
                   errors, ordersPlaced, ordersFailed, totalInvested,
                   conversionResult, currencyConversion, sent, preview,
                   lastResp, execResult, execBufferPercent>>

NextAfford == CheckAfford

SpecAfford == InitAfford /\ [][NextAfford]_vars

\* a string of decimal digits, with an optional minus sign
IsNumeral(chars) ==
    /\ chars # <<>>
    /\ \A n \in 1..Len(chars) : IsDigit(chars[n]) \/ (n = 1 /\ chars[n] = "-")
    /\ \E n \in 1..Len(chars) : IsDigit(chars[n])

\* the number a string of digits denotes, from its last digit backwards
RECURSIVE DigitsValue(_)
DigitsValue(chars) ==
    IF chars = <<>> THEN 0
    ELSE 10 * DigitsValue(SubSeq(chars, 1, Len(chars) - 1))
           + DigitValue(chars[Len(chars)])

NumeralValue(chars) ==
    IF Head(chars) = "-" THEN 0 - DigitsValue(Tail(chars)) ELSE DigitsValue(chars)

\* C9: canAffordOrder answers canAfford = false with the response's error as
\* reason whenever the response carries an error, and otherwise canAfford =
\* true exactly when equity.after >= equity.current * bufferPercent (current
\* 10000, buffer 0.05: after 400 is not affordable, after 500 and 600 are).
C9_CanAffordOrder ==
    affordCheck # NoValue =>
        /\ HasError(preview) =>
             /\ affordCheck.status = "ok"
             /\ ~affordCheck.canAfford
             /\ affordCheck.reason = preview.error
        /\ /\ ~HasError(preview)
           /\ {"amount", "equity"} \subseteq DOMAIN preview
           /\ IsNumeral(preview.equity.current)
           /\ IsNumeral(preview.equity.after)
           => /\ affordCheck.status = "ok"
              /\ affordCheck.canAfford
                   = (100 * NumeralValue(preview.equity.after)
                        >= NumeralValue(preview.equity.current) * bufferPercent)
              /\ affordCheck.canAfford <=> affordCheck.reason = ""
        /\ /\ ~HasError(preview)
           /\ {"amount", "equity"} \subseteq DOMAIN preview
           /\ preview.equity.current = Chars10000
           /\ bufferPercent = 5
           => /\ preview.equity.after = Chars400 => ~affordCheck.canAfford
              /\ preview.equity.after = Chars500 => affordCheck.canAfford
              /\ preview.equity.after = Chars600 => affordCheck.canAfford

\* C9 witness: equity after equal to the buffer amount (10000 * 0.05 = 500)
\* is found affordable
C9_Witness ==
    /\ affordCheck # NoValue
    /\ ~HasError(preview)
    /\ "equity" \in DOMAIN preview
    /\ preview.equity.current = Chars10000
    /\ preview.equity.after = Chars500
    /\ bufferPercent = 5
    /\ affordCheck.canAfford
    /\ affordCheck.bufferAmount100 = 100 * 500

----------------------------------------------------------------------------
\* executeAutoInvest

\* if (plan.ilsToConvert > 100)
MinIlsToConvert == 100

\* a conversion also for exactly 100 ILS
ConvertsFromThreshold(p) == p.ilsToConvert >= MinIlsToConvert

\* if (plan.ilsToConvert > 100)
ConvertsFirst(p) == p.ilsToConvert > MinIlsToConvert

\* ResultSuccess forgetting the failed orders
SuccessWhenAnyPlaced(failed, placed) == placed > 0

\* success: ordersFailed === 0 && ordersPlaced > 0
ResultSuccess(failed, placed) == failed = 0 /\ placed > 0

\* the AutoInvestResult returned
AutoInvestResult(res, errs, placed, failed, invested, cc) ==
    [success            |-> ResultSuccess(failed, placed),
     ordersPlaced       |-> placed,
     ordersFailed       |-> failed,
     totalInvested      |-> invested,
     results            |-> res,
     errors             |-> errs,
     currencyConversion |-> cc]

\* the first element of a place or reply response, by the fields the code
\* looks at: 'id' in r && r.message, then 'order_id' in r
NeedsConfirmation(r) == "id" \in DOMAIN r /\ "message" \in DOMAIN r /\ r.message # ""

IsTerminal(r) == "order_id" \in DOMAIN r

\* the OrderResult pushed for a placed order
SuccessResult(o, orderId) ==
    [symbol |-> o.symbol, shares |-> o.shares, status |-> "success",
     message |-> "Order placed successfully", orderId |-> orderId]

\* the OrderResult pushed when canAffordOrder says no
SkippedResult(o, check) ==
    [symbol |-> o.symbol, shares |-> o.shares, status |-> "skipped",
     message |-> IF check.reason # "" THEN check.reason ELSE "Insufficient funds"]

\* the OrderResult pushed by the catch block
FailedResult(o, error) ==
    [symbol |-> o.symbol, shares |-> o.shares, status |-> "failed",
     message |-> error]

\* errors.push(`Failed to place order for ${symbol}: ${error}`)
OrderError(o, error) == [source |-> "order", symbol |-> o.symbol, text |-> error]

ConversionError(text) == [source |-> "conversion", text |-> text]

\* ConversionRecord taking a placed order for a converted amount
ConversionRecordWhenPlaced(p, c) ==
    [converted |-> c.success,
     ilsAmount |-> p.ilsToConvert,
     orderId   |-> c.orderId,
     message   |-> c.message]

\* currencyConversion as recorded from a ForexConversionResult c;
\* c.filled is TRUE only when the result carries filled === true
ConversionRecord(p, c) ==
    [converted |-> c.success /\ c.filled,
     ilsAmount |-> p.ilsToConvert,
     orderId   |-> c.orderId,
     message   |-> c.message]

\* the entry pushed to errors for a ForexConversionResult c, if any
ConversionErrors(c) ==
    IF c.success /\ c.filled THEN <<>>
    ELSE IF c.success /\ ~c.filled THEN <<ConversionError("pending")>>
         ELSE <<ConversionError("failed")>>

\* what convertIlsToUsdAndWait resolves with: orderId 0 is no order id,
\* filled FALSE also stands for a result without the field
ConversionResults ==
    { [success |-> FALSE, orderId |-> 0, filled |-> FALSE, message |-> "failed"],
      [success |-> TRUE, orderId |-> 0, filled |-> FALSE, message |-> "placed"],
      [success |-> TRUE, orderId |-> 31, filled |-> FALSE, message |-> "not yet filled"],
      [success |-> TRUE, orderId |-> 31, filled |-> TRUE, message |-> "completed"] }

OrderIds == {11, 12}
ReplyIds == {71, 72}

\* the first element of what placeOrder and replyToOrder resolve with
OrderReplies ==
    { [order_id |-> o] : o \in OrderIds }
    \cup { [id |-> c, message |-> "confirm?"] : c \in ReplyIds }
    \cup { [error |-> "rejected"] }

Thrown == [threw |-> TRUE]

\* what previewOrder resolves with in a run of the executor
ExecWhatIfs ==
    { WhatIf(Chars10000, Chars600), WhatIf(Chars10000, Chars400),
      [error |-> "Order rejected"], [warn |-> "no data"] }

Request(kind, n) == [req |-> kind, order |-> n]

\* replyToOrder(id, confirmed)
ReplyRequest(n, id, confirmed) ==
    [req |-> "reply", order |-> n, id |-> id, confirmed |-> confirmed]

\* ReplyTo declining the confirmation
ReplyDeclining(n, r) == ReplyRequest(n, r.id, FALSE)

\* the reply sent to a confirmation request r of order n
ReplyTo(n, r) == ReplyRequest(n, r.id, TRUE)

\* the loop reaches its first order, or the function returns when there is none
EnterOrders(p, errs, cc) ==
    /\ errors' = errs
    /\ currencyConversion' = cc
    /\ IF Len(p.ordersToPlace) = 0
       THEN /\ execPc' = "done" /\ k' = 0
            /\ execResult' = AutoInvestResult(<<>>, errs, 0, 0, 0, cc)
       ELSE /\ execPc' = "preview" /\ k' = 1
            /\ execResult' = execResult

\* the loop leaves order k, or the function returns after the last order
AfterOrder(res, errs, placed, failed, invested) ==
    /\ results' = res
    /\ errors' = errs
    /\ ordersPlaced' = placed
    /\ ordersFailed' = failed
    /\ totalInvested' = invested
    /\ IF k < Len(plan.ordersToPlace)
       THEN /\ execPc' = "preview" /\ k' = k + 1
            /\ execResult' = execResult
       ELSE /\ execPc' = "done" /\ k' = k
            /\ execResult' = AutoInvestResult(res, errs, placed, failed, invested,
                                              currencyConversion)

\* FailOrder with the catch around the loop: the failure ends the batch
FailOrderEndsBatch(error) ==
    /\ results' = Append(results, FailedResult(plan.ordersToPlace[k], error))
    /\ errors' = Append(errors, OrderError(plan.ordersToPlace[k], error))
    /\ ordersPlaced' = ordersPlaced
    /\ ordersFailed' = ordersFailed + 1
    /\ totalInvested' = totalInvested
    /\ execPc' = "done" /\ k' = k
    /\ execResult' = AutoInvestResult(results', errors', ordersPlaced',
                                      ordersFailed', totalInvested,
                                      currencyConversion)

\* the catch block of the order loop
FailOrder(error) ==
    AfterOrder(Append(results, FailedResult(plan.ordersToPlace[k], error)),
               Append(errors, OrderError(plan.ordersToPlace[k], error)),
               ordersPlaced, ordersFailed + 1, totalInvested)

\* the order is recorded as placed
PlacedOrder(orderId) ==
    AfterOrder(Append(results, SuccessResult(plan.ordersToPlace[k], orderId)),
               errors, ordersPlaced + 1, ordersFailed,
               totalInvested + plan.ordersToPlace[k].estimatedCost)

\* the iteration ends without a result
NoResult == AfterOrder(results, errors, ordersPlaced, ordersFailed, totalInvested)

\* executeAutoInvest once createAutoInvestPlan has settled with p: it
\* rejects, or it reads the buffer and goes on to the conversion or the
\* first order
PlanReturned(p) ==
    IF p.status = "threw"
    THEN /\ planPc' = "threw"
         /\ execPc' = "threw"
         /\ UNCHANGED <<k, errors, currencyConversion, execResult, execBufferPercent>>
    ELSE /\ planPc' = "planned"
         /\ execBufferPercent' = bufferPercent
         /\ IF ConvertsFirst(p)
            THEN /\ execPc' = "convert"
                 /\ UNCHANGED <<k, errors, currencyConversion, execResult>>
            ELSE EnterOrders(p, <<>>, NoValue)

\* executeAutoInvest is called: it calls createAutoInvestPlan, that calls
\* analyzePortfolio, that sends the ledger request and waits
ExecStart ==
    /\ execPc = "idle"
    /\ planPc = "idle"
    /\ anaPc = "idle"
    /\ callLog = <<>>
    /\ execPc' = "ledger"
    /\ planPc' = "analysis"
    /\ UNCHANGED <<remoteVars, clientVars, storeVars, callLog, anaVars, fillVars,
                   underweightPositions, i, remainingCash, ordersToPlace, plan,
                   k, results, errors, ordersPlaced, ordersFailed, totalInvested,
                   conversionResult, currencyConversion, sent, preview,
                   affordCheck, lastResp, execResult, execBufferPercent>>

\* await getAccountLedger(accountId) settles in the run
GetLedger ==
    /\ execPc = "ledger"
    /\ execPc' = "analysis"
    /\ callLog' = <<Call("strict", ledger)>>
    /\ UNCHANGED <<remoteVars, clientVars, storeVars, anaVars, fillVars, planVars,
                   k, results, errors, ordersPlaced, ordersFailed, totalInvested,
                   conversionResult, currencyConversion, sent, preview,
                   affordCheck, lastResp, execResult, execBufferPercent>>

\* the last await of analyzePortfolio settles; createAutoInvestPlan goes on
\* to its return, and executeAutoInvest with it, unless the loop has to wait
\* for a search
ExecAnalysed ==
    /\ execPc = "analysis"
    /\ CallInProgress
    /\ LastCall.stage = "rate"
    /\ LET a     == AnalysisOf(LastCall, rateResp, allocations)
           avail == AvailableUSD(a, bufferPercent)
           p     == PlanFor(a, bufferPercent, secdef)
       IN  /\ analysis' = a
           /\ anaPc' = "strict"
           /\ callLog' = [callLog EXCEPT ![Len(callLog)] =
                             Finished(LastCall, rateResp, allocations, a)]
           /\ IF PlanAwaits(a, bufferPercent, secdef)
              THEN /\ planPc' = "walk"
                   /\ execPc' = "planning"
                   /\ underweightPositions' = UnderweightPositions(a)
                   /\ i' = 1
                   /\ remainingCash' = avail
                   /\ ordersToPlace' = <<>>
                   /\ UNCHANGED <<plan, k, errors, currencyConversion, execResult,
                                  execBufferPercent>>
              ELSE /\ plan' = p
                   /\ PlanReturned(p)
                   /\ UNCHANGED <<underweightPositions, i, remainingCash, ordersToPlace>>
    /\ UNCHANGED <<remoteVars, clientVars, storeVars, fillVars, results, ordersPlaced,
                   ordersFailed, totalInvested, conversionResult, sent, preview,
                   affordCheck, lastResp>>

\* the searches of the loop have settled: createAutoInvestPlan returns and
\* executeAutoInvest goes on
ExecPlanned ==
    /\ execPc = "planning"
    /\ LET w == Walk(LoopState, underweightPositions, secdef)
           p == PlanAfterWalk(analysis, remainingCash, w)
       IN  /\ plan' = p
           /\ PlanReturned(p)
    /\ UNCHANGED <<remoteVars, clientVars, storeVars, callLog, fillVars, anaVars,
                   underweightPositions, i, remainingCash, ordersToPlace, results,
                   ordersPlaced, ordersFailed, totalInvested, conversionResult,
                   sent, preview, affordCheck, lastResp>>

\* await convertIlsToUsdAndWait(...) settles
ConvertCurrency ==
    /\ execPc = "convert"
    /\ \/ \E c \in ConversionResults :
            /\ conversionResult' = c
            /\ EnterOrders(plan, ConversionErrors(c), ConversionRecord(plan, c))
       \/ /\ conversionResult' = Thrown
          /\ EnterOrders(plan, <<ConversionError("exception")>>,
                         [converted |-> FALSE, ilsAmount |-> plan.ilsToConvert,
                          orderId |-> 0, message |-> "exception"])
    /\ UNCHANGED <<remoteVars, clientVars, storeVars, callLog, fillVars, anaVars, planVars, results,
                   ordersPlaced, ordersFailed, totalInvested, sent, preview,
                   affordCheck, lastResp, execBufferPercent>>

\* await previewOrder(...) settles and canAffordOrder decides
PreviewOrder ==
    /\ execPc = "preview"
    /\ sent' = Append(sent, Request("whatif", k))
    /\ \/ /\ preview' = Thrown
          /\ affordCheck' = affordCheck
          /\ FailOrder("whatif request failed")
       \/ \E r \in ExecWhatIfs :
            LET check == CanAffordOrder(r, execBufferPercent)
            IN  /\ preview' = r
                /\ affordCheck' = check
                /\ IF check.status = "threw" THEN FailOrder("TypeError")
                   ELSE IF ~check.canAfford
                   THEN AfterOrder(Append(results,
                                          SkippedResult(plan.ordersToPlace[k], check)),
                                   errors, ordersPlaced, ordersFailed, totalInvested)
                   ELSE /\ execPc' = "place"
                        /\ UNCHANGED <<k, results, errors, ordersPlaced,
                                       ordersFailed, totalInvested, execResult>>
    /\ UNCHANGED <<remoteVars, clientVars, storeVars, callLog, fillVars, anaVars, planVars, conversionResult,
                   currencyConversion, lastResp, execBufferPercent>>

\* await placeOrder(...) settles
PlaceOrder ==
    /\ execPc = "place"
    /\ sent' = Append(sent, Request("place", k))
    /\ \/ /\ lastResp' = Thrown
          /\ FailOrder("place request failed")
       \/ \E r \in OrderReplies :
            /\ lastResp' = r
            /\ IF NeedsConfirmation(r)
               THEN /\ execPc' = "reply"
                    /\ UNCHANGED <<k, results, errors, ordersPlaced,
                                   ordersFailed, totalInvested, execResult>>
               ELSE IF IsTerminal(r) THEN PlacedOrder(r.order_id)
               ELSE NoResult
    /\ UNCHANGED <<remoteVars, clientVars, storeVars, callLog, fillVars, anaVars, planVars, conversionResult,
                   currencyConversion, preview, affordCheck, execBufferPercent>>

\* await replyToOrder(firstResponse.id, true) settles
ReplyToOrder ==
    /\ execPc = "reply"
    /\ sent' = Append(sent, ReplyTo(k, lastResp))
    /\ \/ /\ lastResp' = Thrown
          /\ FailOrder("reply request failed")
       \/ \E r \in OrderReplies :
            /\ lastResp' = r
            /\ IF IsTerminal(r) THEN PlacedOrder(r.order_id) ELSE NoResult
    /\ UNCHANGED <<remoteVars, clientVars, storeVars, callLog, fillVars, anaVars, planVars, conversionResult,
                   currencyConversion, preview, affordCheck, execBufferPercent>>


\* the longest allocation list of a run of the executor
MaxExecAllocs == 2

ExecAllocations == <<Alloc("VOO", 50), Alloc("qqq", 30), Alloc("ARKK", 20)>>

\* the first allocations of ExecAllocations, and one list that starts with
\* the allocation whose position has no conid
ExecAllocationLists ==
    { SubSeq(ExecAllocations, 1, n) : n \in 0..Min(MaxExecAllocs, Len(ExecAllocations)) }
        \cup { <<Alloc("ARKK", 20), Alloc("VOO", 50)>> }

ExecLedgers ==
    { [c \in {"USD"} |-> [cashbalance |-> u]] : u \in {0, 3 * CashStep} }
    \cup { [c \in {"USD", "ILS"} |->
              [cashbalance |-> IF c = "USD" THEN u ELSE s]] :
           u \in {CashStep, 3 * CashStep}, s \in {100, 200} }

\* the runs of executeAutoInvest start from these accounts and allocations
InitExec ==
    /\ ledger \in ExecLedgers
    /\ positions \in { <<PosVOO, PosQQQ, PosARKK>> }
    /\ rateResp \in { [status |-> "ok", rate |-> 25], [status |-> "throw"] }
    /\ secdef \in {"found"}
    /\ allocations \in ExecAllocationLists
    /\ bufferPercent \in {0, 5}
    /\ Idle


----------------------------------------------------------------------------
\* Properties of executeAutoInvest

\* the requests of order n, in the order they were sent
RECURSIVE RequestsOf(_, _)
RequestsOf(log, n) ==
    IF log = <<>> THEN <<>>
    ELSE IF Head(log).order = n
         THEN <<Head(log)>> \o RequestsOf(Tail(log), n)
         ELSE RequestsOf(Tail(log), n)

KindsOf(log, n) == [j \in 1..Len(RequestsOf(log, n)) |-> RequestsOf(log, n)[j].req]

\* a request was sent in this step
Sends(kind) ==
    /\ Len(sent') = Len(sent) + 1
    /\ SubSeq(sent', 1, Len(sent)) = sent
    /\ sent'[Len(sent')].req = kind
    /\ sent'[Len(sent')].order = k

\* the loop has gone on to the next planned order, or past the last one
MovesOn ==
    IF k < Len(plan.ordersToPlace)
    THEN execPc' = "preview" /\ k' = k + 1
    ELSE execPc' = "done" /\ k' = k

\* the orders of the plan, none before there is one
PlannedOrders ==
    IF "ordersToPlace" \in DOMAIN plan THEN plan.ordersToPlace ELSE <<>>

\* every planned order has had its what-if request
AllOrdersAttempted ==
    \A n \in 1..Len(PlannedOrders) :
        \E j \in 1..Len(sent) : sent[j] = Request("whatif", n)

\* C2: executeAutoInvest returns success = true exactly when ordersPlaced > 0
\* and ordersFailed = 0, whatever was skipped and whatever the conversion did.
C2_SuccessIffPlacedAndNoneFailed ==
    execPc = "done" =>
        /\ execResult.ordersPlaced = ordersPlaced
        /\ execResult.ordersFailed = ordersFailed
        /\ execResult.success <=> (ordersPlaced > 0 /\ ordersFailed = 0)

\* C2 witness: a successful run with a skipped order and a conversion that
\* did not complete
C2_Witness ==
    /\ execPc = "done"
    /\ execResult.success
    /\ \E n \in 1..Len(results) : results[n].status = "skipped"
    /\ currencyConversion # NoValue /\ ~currencyConversion.converted
    /\ errors # <<>>

\* the what-if response says the order is not affordable: it carries an
\* error, or equity after the trade is below current equity times the buffer
NotAffordable(r) ==
    \/ HasError(r)
    \/ /\ "equity" \in DOMAIN r
       /\ IsNumeral(r.equity.after) /\ IsNumeral(r.equity.current)
       /\ 100 * NumeralValue(r.equity.after)
            < NumeralValue(r.equity.current) * execBufferPercent

\* C3, the state part: the requests of an order begin with its what-if, a
\* place request follows only an affordable preview, and no request is sent
\* for an order that is not yet or no longer the current one.
C3_RequestOrder ==
    /\ \A j \in 1..Len(sent) : sent[j].order \in 1..k
    /\ \A n \in 1..Len(PlannedOrders) :
         /\ RequestsOf(sent, n) # <<>> => KindsOf(sent, n)[1] = "whatif"
         /\ \A j \in 1..Len(KindsOf(sent, n)) :
              j > 1 => KindsOf(sent, n)[j] # "whatif"
    /\ execPc = "place" =>
         /\ preview # Thrown /\ ~NotAffordable(preview)
         /\ affordCheck.canAfford

\* C3, the step part: when the what-if of an order settles, a preview that
\* is not affordable is recorded as skipped with a reason and the loop moves
\* on without a place request; a place request is sent only from the state
\* an affordable preview leads to.
C3_SkipStep ==
    /\ ( /\ execPc = "preview"
         /\ sent' # sent
         /\ preview' # Thrown
         /\ NotAffordable(preview') )
       => /\ Sends("whatif")
          /\ Len(results') = Len(results) + 1
          /\ results'[Len(results')].status = "skipped"
          /\ results'[Len(results')].symbol = plan.ordersToPlace[k].symbol
          /\ results'[Len(results')].message # ""
          /\ HasError(preview') => results'[Len(results')].message = preview'.error
          /\ MovesOn
          /\ ordersFailed' = ordersFailed /\ ordersPlaced' = ordersPlaced
    /\ sent' # sent /\ sent'[Len(sent')].req = "place" =>
          /\ execPc = "place"
          /\ Sends("place")
    /\ k' >= k

\* C3: the what-if preview of an order completes before any placement
\* request for it, and an order whose preview is not affordable is recorded
\* as skipped with a reason, with no place request ever sent for it.
C3_UnaffordableIsSkipped == []C3_RequestOrder /\ [][C3_SkipStep]_vars

\* C3 witness: an order was skipped on the buffer rule, only its what-if was
\* sent, and a later order was placed
C3_Witness ==
    /\ execPc = "done"
    /\ Len(results) = 2
    /\ results[1].status = "skipped"
    /\ results[1].message = "Insufficient funds after applying safety buffer"
    /\ KindsOf(sent, 1) = <<"whatif">>
    /\ results[2].status = "success"
    /\ KindsOf(sent, 2) = <<"whatif", "place">>

\* the request of this step failed
RequestFailed ==
    \/ Sends("whatif") /\ preview' = Thrown
    \/ Sends("place") /\ lastResp' = Thrown
    \/ Sends("reply") /\ lastResp' = Thrown

\* C4, the step part: a failed request gives the order one failed result
\* with the error text, one more in ordersFailed, one more entry in errors,
\* and the loop moves on to the next order.
C4_FailStep ==
    RequestFailed =>
        /\ Len(results') = Len(results) + 1
        /\ SubSeq(results', 1, Len(results)) = results
        /\ results'[Len(results')].status = "failed"
        /\ results'[Len(results')].symbol = plan.ordersToPlace[k].symbol
        /\ results'[Len(results')].message
              \in {"whatif request failed", "place request failed",
                   "reply request failed"}
        /\ ordersFailed' = ordersFailed + 1
        /\ ordersPlaced' = ordersPlaced
        /\ totalInvested' = totalInvested
        /\ Len(errors') = Len(errors) + 1
        /\ errors'[Len(errors')].text = results'[Len(results')].message
        /\ MovesOn

\* C4, the state part: the function throws only out of planning, before any
\* order request, and returns only after every planned order was attempted.
C4_NoThrowState ==
    /\ execPc = "threw" => sent = <<>> /\ plan.status = "threw"
    /\ execPc = "done" => AllOrdersAttempted /\ execResult # NoValue

\* C4: a failing preview, place or confirm request of one order yields one
\* failed OrderResult with the error text, ordersFailed + 1 and one entry in
\* errors; the later orders are still processed and executeAutoInvest does
\* not throw.
C4_FailureIsolated == []C4_NoThrowState /\ [][C4_FailStep]_vars

\* C4 witness: the first order failed at its place request and the second
\* order was still previewed and placed
C4_Witness ==
    /\ execPc = "done"
    /\ Len(results) = 2
    /\ results[1].status = "failed"
    /\ results[1].message = "place request failed"
    /\ results[2].status = "success"
    /\ ordersFailed = 1 /\ ordersPlaced = 1
    /\ ~execResult.success

\* C5: while the latest response to a placed order is a confirmation
\* request, the program is about to reply to it: it never leaves an order
\* whose latest response asks for a confirmation.
C5_RepliesUntilTerminal ==
    NeedsConfirmation(lastResp) => execPc = "reply"

\* the order of this step got its terminal reply
TerminalNow ==
    /\ execPc \in {"place", "reply"}
    /\ sent' # sent
    /\ lastResp' # Thrown
    /\ IsTerminal(lastResp')

\* C6, the step part: a terminal reply to placeOrder, or to the single
\* replyToOrder(id, true) that answers placeOrder's confirmation request,
\* records 'success' with that order id and counts the order and its cost.
C6_SuccessStep ==
    /\ TerminalNow =>
         /\ Len(results') = Len(results) + 1
         /\ results'[Len(results')]
               = [symbol  |-> plan.ordersToPlace[k].symbol,
                  shares  |-> plan.ordersToPlace[k].shares,
                  status  |-> "success",
                  message |-> "Order placed successfully",
                  orderId |-> lastResp'.order_id]
         /\ ordersPlaced' = ordersPlaced + 1
         /\ ordersFailed' = ordersFailed
         /\ totalInvested' = totalInvested + plan.ordersToPlace[k].estimatedCost
         /\ errors' = errors
    /\ sent' # sent /\ sent'[Len(sent')].req = "reply" =>
         /\ Sends("reply")
         /\ NeedsConfirmation(lastResp)
         /\ sent'[Len(sent')].id = lastResp.id
         /\ sent'[Len(sent')].confirmed = TRUE
         /\ KindsOf(sent, k) = <<"whatif", "place">>

\* C6, the state part: at most one reply is sent for an order
C6_AtMostOneReply ==
    \A n \in 1..Len(PlannedOrders) :
        KindsOf(sent, n) \in { <<>>, <<"whatif">>, <<"whatif", "place">>,
                               <<"whatif", "place", "reply">> }

\* C6: a terminal reply from placeOrder, or from the one replyToOrder(id,
\* true) after a confirmation request, makes the OrderResult 'success' with
\* that order id, ordersPlaced + 1 and totalInvested + estimatedCost; at most
\* one reply is sent.
C6_PlacedAfterAtMostOneReply == []C6_AtMostOneReply /\ [][C6_SuccessStep]_vars

\* C6 witness: one order placed directly and one placed after one reply to
\* confirmation 72, with both costs invested
C6_Witness ==
    /\ execPc = "done"
    /\ Len(results) = 2
    /\ results[1].status = "success" /\ results[2].status = "success"
    /\ KindsOf(sent, 1) = <<"whatif", "place">>
    /\ RequestsOf(sent, 2)
         = <<Request("whatif", 2), Request("place", 2), ReplyRequest(2, 72, TRUE)>>
    /\ results[2].orderId = 12
    /\ totalInvested = SumEstimatedCost(plan.ordersToPlace)
    /\ ordersPlaced = 2

\* the conversion was placed and reported filled
ConversionFilled ==
    /\ conversionResult # Thrown
    /\ conversionResult.success
    /\ conversionResult.orderId # 0
    /\ conversionResult.filled

\* the entries of errors that come from the conversion
RECURSIVE CountConversionErrors(_)
CountConversionErrors(errs) ==
    IF errs = <<>> THEN 0
    ELSE (IF Head(errs).source = "conversion" THEN 1 ELSE 0)
           + CountConversionErrors(Tail(errs))

\* C7: whatever the currency conversion did, every planned order is
\* attempted afterwards; currencyConversion.converted is true exactly when
\* the conversion order was placed and reported filled, and every other
\* outcome leaves exactly one entry in errors.
C7_ConversionNeverBlocks ==
    conversionResult # NoValue =>
        /\ execPc \in {"preview", "place", "reply", "done"}
        /\ execPc = "done" => AllOrdersAttempted
        /\ currencyConversion # NoValue
        /\ currencyConversion.converted <=> ConversionFilled
        /\ CountConversionErrors(errors) = IF ConversionFilled THEN 0 ELSE 1
        /\ execPc = "done" => execResult.currencyConversion = currencyConversion

\* C7 witness: the conversion was placed but not filled in time, and the
\* planned order was then placed
C7_Witness ==
    /\ execPc = "done"
    /\ conversionResult # NoValue /\ conversionResult # Thrown
    /\ conversionResult.success /\ ~conversionResult.filled
    /\ ~currencyConversion.converted
    /\ Len(plan.ordersToPlace) >= 1
    /\ ordersPlaced = Len(plan.ordersToPlace)
    /\ Len(errors) = 1

----------------------------------------------------------------------------
\* SpecStore: the AllocationStore, one action per setter

\* defaults.bufferPercent, 0.05
DefaultBufferPercent == 5

\* the largest fraction setBufferPercent accepts, 1
MaxBufferPercent == 100

\* TotalExceeds without the test
TotalNeverExceeds(total) == FALSE

\* total > 100
TotalExceeds(total) == total > MaxTotalPercent

\* BufferOutOfRange without the test
BufferAlwaysInRange(percent) == FALSE

\* percent < 0 || percent > 1
BufferOutOfRange(percent) == percent < 0 \/ percent > MaxBufferPercent

\* allocations.findIndex((a) => a.symbol.toUpperCase() ===
\* allocation.symbol.toUpperCase()), 1-based, 0 for -1
RECURSIVE IndexOfSymbolFrom(_, _, _)
IndexOfSymbolFrom(list, symbol, n) ==
    IF n > Len(list) THEN 0
    ELSE IF ToUpperCase(list[n].symbol) = ToUpperCase(symbol) THEN n
         ELSE IndexOfSymbolFrom(list, symbol, n + 1)

IndexOfSymbol(list, symbol) == IndexOfSymbolFrom(list, symbol, 1)

\* { ...old, ...new }
Spread(old, new) ==
    [f \in DOMAIN old \cup DOMAIN new |-> IF f \in DOMAIN new THEN new[f] ELSE old[f]]

\* the list upsertAllocation hands to setAllocations
Upserted(list, allocation) ==
    LET index == IndexOfSymbol(list, allocation.symbol)
    IN  IF index > 0
        THEN [list EXCEPT ![index] = Spread(list[index], allocation)]
        ELSE Append(list, allocation)

\* getAllocations().filter((a) => a.symbol.toUpperCase() !== symbol.toUpperCase())
RECURSIVE Removed(_, _)
Removed(list, symbol) ==
    IF list = <<>> THEN <<>>
    ELSE IF ToUpperCase(Head(list).symbol) # ToUpperCase(symbol)
         THEN <<Head(list)>> \o Removed(Tail(list), symbol)
         ELSE Removed(Tail(list), symbol)

StoreCall(op, arg, threw) == [op |-> op, arg |-> arg, threw |-> threw]

\* this.setAllocations(list), reached through the setter op called with arg
StoreAllocations(op, arg, list) ==
    IF TotalExceeds(TotalTargetPercent(list))
    THEN /\ storeCall' = StoreCall(op, arg, TRUE)
         /\ UNCHANGED <<allocations, lastUpdated>>
    ELSE /\ allocations' = list
         /\ lastUpdated' = lastUpdated + 1
         /\ storeCall' = StoreCall(op, arg, FALSE)

\* the longest list handed to setAllocations
MaxStoreAllocs == 2

\* the writes of one run
MaxWrites == 2

StoreAllocationMenu ==
    { Alloc("VOO", 50), Alloc("voo", 60), Alloc("ARKK", 150),
      [symbol |-> "arkk", targetPercent |-> -60, conid |-> 777] }

StoreAllocationLists == SeqsUpTo(StoreAllocationMenu, MaxStoreAllocs)

StoreSymbols == {"voo", "TSLA"}

StoreBufferPercents == {-1, 0, 100, 101}

InitStore ==
    /\ ledger = [c \in {"USD"} |-> [cashbalance |-> 0]]
    /\ positions = <<>>
    /\ rateResp = [status |-> "ok", rate |-> 25]
    /\ secdef = "found"
    /\ allocations = <<>>
    /\ bufferPercent = DefaultBufferPercent
    /\ Idle

SetAllocations ==
    /\ lastUpdated < MaxWrites
    /\ \E list \in StoreAllocationLists :
          StoreAllocations("setAllocations", list, list)
    /\ UNCHANGED <<remoteVars, clientVars, bufferPercent, anaVars, planVars, execVars,
                   callLog, fillVars>>

UpsertAllocation ==
    /\ lastUpdated < MaxWrites
    /\ \E allocation \in StoreAllocationMenu :
          StoreAllocations("upsertAllocation", allocation,
                           Upserted(allocations, allocation))
    /\ UNCHANGED <<remoteVars, clientVars, bufferPercent, anaVars, planVars, execVars,
                   callLog, fillVars>>

RemoveAllocation ==
    /\ lastUpdated < MaxWrites
    /\ \E symbol \in StoreSymbols :
          StoreAllocations("removeAllocation", symbol,
                           Removed(allocations, symbol))
    /\ UNCHANGED <<remoteVars, clientVars, bufferPercent, anaVars, planVars, execVars,
                   callLog, fillVars>>

\* the body of setBufferPercent(percent): the range check, then the write
SetBufferTo(percent) ==
    IF BufferOutOfRange(percent)
    THEN /\ storeCall' = StoreCall("setBufferPercent", percent, TRUE)
         /\ bufferPercent' = bufferPercent
    ELSE /\ storeCall' = StoreCall("setBufferPercent", percent, FALSE)
         /\ bufferPercent' = percent

SetBufferPercent ==
    /\ \E percent \in StoreBufferPercents : SetBufferTo(percent)
    /\ UNCHANGED <<remoteVars, clientVars, allocations, lastUpdated, anaVars, planVars,
                   execVars, callLog, fillVars>>

\* clear(): this.store.clear() puts every key back to its default
Clear ==
    /\ allocations' = <<>>
    /\ bufferPercent' = DefaultBufferPercent
    /\ lastUpdated' = 0
    /\ storeCall' = StoreCall("clear", <<>>, FALSE)
    /\ UNCHANGED <<remoteVars, clientVars, anaVars, planVars, execVars, callLog, fillVars>>

NextStore ==
    SetAllocations \/ UpsertAllocation \/ RemoveAllocation \/ SetBufferPercent \/ Clear

SpecStore == InitStore /\ [][NextStore]_vars

\* the handler of settings:setBuffer runs while executeAutoInvest waits for
\* an answer; the plan reads the buffer after its analysis and the run reads
\* it once, when the plan has returned
BufferSetWhileWaiting ==
    /\ execPc \in {"ledger", "analysis", "planning", "convert", "preview", "place",
                   "reply"}
    /\ \E percent \in {MaxBufferPercent} : SetBufferTo(percent)
    /\ UNCHANGED <<remoteVars, clientVars, allocations, lastUpdated, anaVars, planVars,
                   execVars, callLog, fillVars>>

\* executeAutoInvest, one action per await, with the account and the buffer
\* setting changing while it waits for its plan
NextExec ==
    \/ ExecStart \/ GetLedger \/ GetPositions \/ ExecAnalysed \/ ExecPlanned
    \/ ConvertCurrency \/ PreviewOrder \/ PlaceOrder \/ ReplyToOrder
    \/ AccountTrades \/ BufferSetWhileWaiting

Spec == InitExec /\ [][NextExec]_vars

\* a store setter was called in this step
StoreCalled == storeCall' # storeCall \/ allocations' # allocations
                  \/ lastUpdated' # lastUpdated \/ bufferPercent' # bufferPercent

AllocationOps == {"setAllocations", "upsertAllocation", "removeAllocation"}

\* the set the call would persist
ResultingAllocations(call) ==
    CASE call.op = "setAllocations"    -> call.arg
      [] call.op = "upsertAllocation"  -> Upserted(allocations, call.arg)
      [] call.op = "removeAllocation"  -> Removed(allocations, call.arg)

C11_TotalAtMost100 == TotalTargetPercent(allocations) <= 100

C11_WriteStep ==
    (StoreCalled /\ storeCall'.op \in AllocationOps) =>
        IF TotalTargetPercent(ResultingAllocations(storeCall')) > 100
        THEN /\ storeCall'.threw
             /\ allocations' = allocations
             /\ lastUpdated' = lastUpdated
        ELSE /\ ~storeCall'.threw
             /\ allocations' = ResultingAllocations(storeCall')
             /\ lastUpdated' # lastUpdated

\* C11: after any sequence of setAllocations, upsertAllocation and
\* removeAllocation calls the persisted allocations sum to at most 100; a
\* call whose resulting set sums above 100 throws and leaves the persisted
\* allocations and lastUpdated as they were.
C11_TotalNeverAbove100 == []C11_TotalAtMost100 /\ [][C11_WriteStep]_vars

\* C11 witness: an upsert that would lift a persisted set above 100 threw
C11_Witness ==
    /\ storeCall # NoValue
    /\ storeCall.op = "upsertAllocation" /\ storeCall.threw
    /\ allocations # <<>>
    /\ lastUpdated >= 1
    /\ TotalTargetPercent(Upserted(allocations, storeCall.arg)) > 100

\* C12: the persisted allocations never hold two entries whose symbols are
\* equal ignoring case.
C12_SymbolsUnique ==
    \A m, n \in 1..Len(allocations) :
        m # n => ToUpperCase(allocations[m].symbol) # ToUpperCase(allocations[n].symbol)

\* C13: every persisted allocation has targetPercent in (0,100].
C13_TargetPercentInRange ==
    \A n \in 1..Len(allocations) :
        allocations[n].targetPercent > 0 /\ allocations[n].targetPercent <= 100

C14_BufferInRange ==
    /\ bufferPercent >= 0 /\ bufferPercent <= 100
    /\ storeCall = NoValue => bufferPercent = 5

C14_BufferStep ==
    (StoreCalled /\ storeCall'.op = "setBufferPercent") =>
        IF storeCall'.arg < 0 \/ storeCall'.arg > 100
        THEN storeCall'.threw /\ bufferPercent' = bufferPercent
        ELSE ~storeCall'.threw /\ bufferPercent' = storeCall'.arg

\* C14: the persisted buffer percent is always within [0,1], 0.05 at first;
\* setBufferPercent with a value below 0 or above 1 throws and leaves the
\* stored value as it was.
C14_BufferAlwaysInRange == []C14_BufferInRange /\ [][C14_BufferStep]_vars

\* C14 witness: the buffer was set to 1 and a later call with more than 1
\* threw without changing it
C14_Witness ==
    /\ storeCall # NoValue
    /\ storeCall.op = "setBufferPercent" /\ storeCall.threw
    /\ storeCall.arg = 101
    /\ bufferPercent = 100

----------------------------------------------------------------------------
\* Properties of the plan, checked on SpecPlan

\* C15: no order is planned for a position unless the position is below
\* its target by more than the buffer percentage.
C15_OrdersOnlyBeyondBuffer ==
    planPc \in {"walk", "planned"} =>
        \A n \in 1..Len(ordersToPlace) :
            LET p == underweightPositions[ordersToPlace[n].priority]
            IN  p.deviationPercent.num > bufferPercent * p.deviationPercent.den

\* no analysed position is below its target
NoneBelowTarget ==
    \A n \in 1..Len(analysis.positions) :
        analysis.positions[n].deviationPercent.num <= 0

\* C16: when the available cash after the buffer is <= 0, and when no
\* analysed position is underweight, createAutoInvestPlan returns a plan
\* with no orders and does not throw; in the first case the plan reports
\* totalAvailableUSD 0.
C16_EmptyPlanIsReturned ==
    (planPc # "idle" /\ analysis.status = "ok") =>
        LET avail == AvailableUSD(analysis, bufferPercent)
        IN  /\ avail <= 0 =>
                 /\ planPc = "planned"
                 /\ plan.status = "ok"
                 /\ plan.ordersToPlace = <<>>
                 /\ plan.totalAvailableUSD = 0
                 /\ plan.summary = "no-cash"
            /\ (avail > 0 /\ NoneBelowTarget) =>
                 /\ planPc = "planned"
                 /\ plan.status = "ok"
                 /\ plan.ordersToPlace = <<>>
                 /\ plan.totalAvailableUSD = avail
                 /\ plan.summary = "no-orders"

\* C16 witness: cash is available, the one configured position is above its
\* target, and the plan returned is empty
C16_Witness ==
    /\ planPc = "planned"
    /\ analysis.status = "ok"
    /\ AvailableUSD(analysis, bufferPercent) > 0
    /\ Len(analysis.positions) >= 1
    /\ NoneBelowTarget
    /\ plan.ordersToPlace = <<>>
    /\ plan.summary = "no-orders"

\* the other case of C16: cash that the buffer uses up entirely
C16_NoCashReached ==
    /\ planPc = "planned"
    /\ TotalCashUSD(analysis) > 0
    /\ AvailableUSD(analysis, bufferPercent) <= 0
    /\ plan.totalAvailableUSD = 0

----------------------------------------------------------------------------
\* SpecFill: waitForOrderFill, one action per await: the getLiveOrders
\* requests and the sleeps between them.  Time is counted in seconds.

\* timeoutMs of the call
FillTimeout == 4

\* intervalMs of the call
PollInterval == 2

\* what a getLiveOrders request shows of the awaited order: the request
\* fails, the order is not in the list, or it is there with a status ("" for
\* an order without one)
LiveOrderViews ==
    { [kind |-> "throw"], [kind |-> "absent"] }
    \cup { [kind |-> "order", status |-> st] :
             st \in {"Filled", "Cancelled", "Rejected", "Inactive", "Submitted", ""} }

\* order.status?.toLowerCase() || ''
LowerStatus(view) ==
    CASE view.status = "Filled"    -> "filled"
      [] view.status = "Cancelled" -> "cancelled"
      [] view.status = "Rejected"  -> "rejected"
      [] view.status = "Inactive"  -> "inactive"
      [] view.status = "Submitted" -> "submitted"
      [] OTHER                     -> view.status

\* status === 'cancelled' || status === 'rejected' || status === 'inactive'
IsTerminalNonFill(view) ==
    /\ view.kind = "order"
    /\ LowerStatus(view) \in {"cancelled", "rejected", "inactive"}

\* the check function handed to pollUntil
CheckFn(view) ==
    CASE view.kind = "throw"  -> FALSE
      [] view.kind = "absent" -> TRUE
      [] OTHER -> LowerStatus(view) = "filled" \/ IsTerminalNonFill(view)

\* FinalResult that trusts the polling and skips the last look
FinalResultFromPoll(view, result) ==
    [filled |-> result, status |-> IF result THEN "filled" ELSE "unknown"]

\* what waitForOrderFill resolves with after its last getLiveOrders request
FinalResult(view, result) ==
    CASE view.kind = "throw" ->
            [filled |-> result, status |-> IF result THEN "filled" ELSE "unknown"]
      [] view.kind = "absent" -> [filled |-> TRUE, status |-> "filled"]
      [] OTHER ->
            [filled |-> LowerStatus(view) = "filled",
             status |-> IF view.status # "" THEN view.status ELSE "unknown"]

InitFill ==
    /\ ledger = [c \in {"USD"} |-> [cashbalance |-> 0]]
    /\ positions = <<>>
    /\ rateResp = [status |-> "ok", rate |-> 25]
    /\ secdef = "found"
    /\ allocations = <<>>
    /\ bufferPercent = DefaultBufferPercent
    /\ anaPc = "idle" /\ analysis = NoValue
    /\ planPc = "idle" /\ underweightPositions = <<>> /\ i = 0
    /\ remainingCash = 0 /\ ordersToPlace = <<>> /\ plan = NoValue
    /\ execPc = "convert" /\ k = 0 /\ results = <<>> /\ errors = <<>>
    /\ ordersPlaced = 0 /\ ordersFailed = 0 /\ totalInvested = 0
    /\ conversionResult = NoValue
    /\ currencyConversion = NoValue /\ sent = <<>> /\ preview = NoValue
    /\ affordCheck = NoValue /\ lastResp = NoValue
    /\ execResult = NoValue /\ execBufferPercent = 0
    /\ lastUpdated = 0 /\ storeCall = NoValue
    /\ callLog = <<>>
    /\ fillPc = "loop" /\ elapsed = 0 /\ attempt = 0 /\ liveLog = <<>>
    /\ pollResult = FALSE /\ fillResult = NoValue
    /\ ClientIdle

\* the loop test of pollUntil and await checkFn(): the getLiveOrders request
\* of the check function settles after took seconds; when the check says no
\* the call goes on to the sleep
PollOrder ==
    /\ fillPc = "loop"
    /\ elapsed < FillTimeout
    /\ \E view \in LiveOrderViews, took \in {0, 1} :
          /\ attempt' = attempt + 1
          /\ liveLog' = Append(liveLog, view)
          /\ elapsed' = elapsed + took
          /\ IF CheckFn(view)
             THEN /\ pollResult' = TRUE
                  /\ fillPc' = "final"
             ELSE /\ pollResult' = FALSE
                  /\ fillPc' = "sleep"
    /\ fillResult' = fillResult
    /\ UNCHANGED <<remoteVars, clientVars, storeVars, anaVars, planVars, execVars, callLog>>

\* await sleep(intervalMs) ends and the loop test comes next
PollSleepEnds ==
    /\ fillPc = "sleep"
    /\ elapsed' = elapsed + PollInterval
    /\ fillPc' = "loop"
    /\ UNCHANGED <<remoteVars, clientVars, storeVars, anaVars, planVars, execVars, callLog,
                   attempt, liveLog, pollResult, fillResult>>

\* pollUntil has returned, with true or on the timeout; the last
\* getLiveOrders request settles and waitForOrderFill returns
FinalStatus ==
    /\ fillPc = "final" \/ (fillPc = "loop" /\ elapsed >= FillTimeout)
    /\ \E view \in LiveOrderViews :
          /\ liveLog' = Append(liveLog, view)
          /\ fillResult' = FinalResult(view, pollResult)
    /\ fillPc' = "done"
    /\ UNCHANGED <<remoteVars, clientVars, storeVars, anaVars, planVars, execVars, callLog,
                   elapsed, attempt, pollResult>>

NextFill == PollOrder \/ PollSleepEnds \/ FinalStatus

SpecFill == InitFill /\ [][NextFill]_vars

\* C18: when a poll shows the awaited order cancelled, rejected or
\* inactive, the result is filled = false with that status; such an order
\* is never reported as filled.
C18_TerminalNonFillNeverFilled ==
    fillPc = "done" =>
        \A n \in 1..attempt :
            IsTerminalNonFill(liveLog[n]) =>
                /\ fillResult.filled = FALSE
                /\ fillResult.status = liveLog[n].status

\* C19: when the first poll shows the order absent from the live orders,
\* the result is filled = true and no live-orders request follows that poll.
C19_AbsentAtFirstPollIsFilled ==
    (liveLog # <<>> /\ liveLog[1].kind = "absent") =>
        /\ Len(liveLog) = 1
        /\ fillPc = "done" => fillResult.filled

\* the timeout elapsed and the last request shows the order still live:
\* neither filled nor cancelled, rejected or inactive
TimedOutStillLive ==
    /\ fillPc = "done"
    /\ ~pollResult
    /\ liveLog[Len(liveLog)].kind = "order"
    /\ LowerStatus(liveLog[Len(liveLog)]) # "filled"
    /\ ~IsTerminalNonFill(liveLog[Len(liveLog)])

\* C20 as stated: after a timeout with the order still live the result is
\* filled = false with status 'unknown'.
C20_TimeoutReportsUnknown ==
    TimedOutStillLive =>
        fillResult.filled = FALSE /\ fillResult.status = "unknown"

\* C20: after a timeout with the order still live the result is filled =
\* false with the status the order has in the last live-orders response,
\* and 'unknown' only when the order carries no status; when that last
\* request fails the result is filled = false with status 'unknown'.
C20_TimeoutReportsLastStatus ==
    /\ TimedOutStillLive =>
          /\ fillResult.filled = FALSE
          /\ fillResult.status = IF liveLog[Len(liveLog)].status = ""
                                 THEN "unknown"
                                 ELSE liveLog[Len(liveLog)].status
    /\ (fillPc = "done" /\ ~pollResult /\ liveLog[Len(liveLog)].kind = "throw") =>
          /\ fillResult.filled = FALSE
          /\ fillResult.status = "unknown"

\* C20 witness: two polls saw the order submitted, the timeout elapsed, and
\* the result carries the status 'Submitted'
C20_Witness ==
    /\ fillPc = "done"
    /\ ~pollResult
    /\ attempt = 2
    /\ elapsed >= FillTimeout
    /\ liveLog[3] = [kind |-> "order", status |-> "Submitted"]
    /\ fillResult = [filled |-> FALSE, status |-> "Submitted"]

----------------------------------------------------------------------------
\* getAllPositions: the paginated fetch of the positions of an account

\* "IBKR typically returns max 30 positions per page"
PageSize == 30

\* the pages getAllPositions asks for in one call, at most
MaxPages == 3

\* the entries of page p when it holds len of them
PageOf(p, len) == [n \in 1..len |-> <<p, n>>]

\* the lengths a page of the gateway may have
PageLengths == {0, 2, PageSize - 1, PageSize, PageSize + 1}

\* what getPositions(accountId, p) settles with: a page, or a failed request
PageAnswers(p) ==
    {[status |-> "ok", positions |-> PageOf(p, len)] : len \in PageLengths}
        \cup {[status |-> "throw"]}

\* the request of the page failed: ibkrRequest rejected
PageFailed(answer) == answer.status = "throw"

\* stops the loop whatever the page holds
StopsAlways(page) == TRUE

\* positions.length === 0, and positions.length < 30 after a push
StopsPaging(page) == Len(page) = 0 \/ Len(page) < PageSize

\* the gateway answers pages 0 .. MaxPages-1 (index p+1 holds page p)
InitPages ==
    /\ CoreQuiet
    /\ HttpIdle /\ RunsIdle /\ ConvIdle /\ PollIdle /\ GatewayIdle /\ LoginIdle
    /\ pagesPc = "loop" /\ pageId = 0 /\ allPositions = <<>>
    /\ pageRequests = <<>>
    /\ pageBackend \in { b \in [1..MaxPages -> UNION {PageAnswers(p) : p \in 0..(MaxPages - 1)}] :
                           \A p \in 0..(MaxPages - 1) : b[p + 1] \in PageAnswers(p) }

\* one round of the while loop: the request of page pageId and what the loop
\* does with the answer; the return follows the round that clears hasMore
GetPage ==
    /\ pagesPc = "loop"
    /\ pageId < MaxPages
    /\ pageRequests' = Append(pageRequests, pageId)
    /\ LET answer == pageBackend[pageId + 1]
           page   == answer.positions IN
         IF PageFailed(answer)
           THEN /\ pagesPc' = "threw"
                /\ UNCHANGED <<pageId, allPositions>>
           ELSE IF Len(page) = 0
                  THEN /\ pagesPc' = "done"
                       /\ UNCHANGED <<pageId, allPositions>>
                  ELSE /\ allPositions' = allPositions \o page
                       /\ pageId' = pageId + 1
                       /\ pagesPc' = IF StopsPaging(page) THEN "done" ELSE "loop"
    /\ UNCHANGED <<coreVars, loginVars, gwVars, pollVars, convVars, pageBackend, httpVars, runVars>>

NextPages == GetPage

\* a request that was issued is answered, and the loop then runs its round
SpecPages == InitPages /\ [][NextPages]_vars /\ WF_vars(GetPage)

\* the pages of the gateway with ids first .. last, one after another
RECURSIVE ConcatPages(_, _)
ConcatPages(first, last) ==
    IF first > last THEN <<>>
    ELSE pageBackend[first + 1].positions \o ConcatPages(first + 1, last)

\* a page that ends the paging
ShortPage(answer) == ~PageFailed(answer) /\ Len(answer.positions) < PageSize

\* the ids 0, 1, 2, ... were requested in this order and nothing else
RequestedInOrder == \A n \in 1..Len(pageRequests) : pageRequests[n] = n - 1

\* every page requested before the latest one was a full page
EarlierPagesFull ==
    \A n \in 1..(Len(pageRequests) - 1) :
        ~PageFailed(pageBackend[n]) /\ Len(pageBackend[n].positions) >= PageSize

C21_PagesInOrder ==
    /\ RequestedInOrder
    /\ EarlierPagesFull
    /\ pagesPc = "done" =>
          /\ pageRequests # <<>>
          /\ ShortPage(pageBackend[Len(pageRequests)])
          /\ allPositions = ConcatPages(0, Len(pageRequests) - 1)

\* nothing is requested after the call has settled
C21_NoLaterPage == pagesPc \in {"done", "threw"} => pageRequests' = pageRequests

\* the first page of the gateway that ends the call is among its pages
C21_SomePageEnds == \E p \in 1..MaxPages : PageFailed(pageBackend[p]) \/ ShortPage(pageBackend[p])

\* C21: getAllPositions requests pages 0, 1, 2, ... one after another, returns
\* the concatenation of the pages in page order, stops after the first page
\* with fewer than 30 entries (an empty page included) without requesting a
\* later page, and terminates whenever the gateway eventually returns such a
\* page.
C21_PagingStopsAtShortPage ==
    /\ []C21_PagesInOrder
    /\ [][C21_NoLaterPage]_vars
    /\ (C21_SomePageEnds ~> pagesPc \in {"done", "threw"})

\* two full pages and then a short one: three requests, all entries returned
C21_Witness ==
    /\ pagesPc = "done"
    /\ pageRequests = <<0, 1, 2>>
    /\ Len(allPositions) = 2 * PageSize + 2

\* a gateway whose pages are all full keeps the loop asking
C21_StillPaging ==
    /\ pagesPc = "loop"
    /\ pageId = MaxPages
    /\ Len(allPositions) >= MaxPages * PageSize

----------------------------------------------------------------------------
\* ibkrRequest: one HTTPS request to the gateway, redirects followed by hand

\* if (redirectCount > 5)
MaxRedirects == 5

\* new IBKRError(statusCode, message)
IBKRError(statusCode, message) ==
    [status |-> "rejected", statusCode |-> statusCode, message |-> message]

\* a response of the gateway: its status, its Location header ("" when it has
\* none), and its body
Response(statusCode, location, data) ==
    [kind |-> "response", statusCode |-> statusCode, location |-> location, data |-> data]

\* the responses the gateway gives in the model
Responses ==
    { Response(200, "", "{\"a\":1}"), Response(200, "", "OK"),
      Response(200, "/sso/Login", "12"), Response(204, "", ""),
      Response(301, "/sso/Login", ""), Response(302, "/sso/Login", "moved"),
      Response(302, "https://[", ""),
      Response(302, "", ""), Response(304, "", "cached"),
      Response(401, "/sso/Login", "denied"), Response(500, "", "") }

\* new URL(location, requestUrl) on the Location headers of the model: a path
\* resolves against requestUrl, an absolute URL whose host is an unclosed
\* bracket is a TypeError
NewURL(location) ==
    IF location = "https://[" THEN [ok |-> FALSE] ELSE [ok |-> TRUE, href |-> location]

\* a JavaScript value: its typeof and its JSON text
JsValue(type, text) == [type |-> type, text |-> text]

\* JSON.parse on the bodies of the model: the value, or a SyntaxError
JsonParse(data) ==
    CASE data = "{\"a\":1}" -> [ok |-> TRUE, value |-> JsValue("object", "{\"a\":1}")]
      [] data = "12"        -> [ok |-> TRUE, value |-> JsValue("number", "12")]
      [] OTHER              -> [ok |-> FALSE]

\* data ? JSON.parse(data) : {}, and the raw text when the parse throws
ParsedBody(data) ==
    IF data = "" THEN [status |-> "resolved", value |-> JsValue("object", "{}")]
    ELSE IF JsonParse(data).ok
           THEN [status |-> "resolved", value |-> JsonParse(data).value]
           ELSE [status |-> "resolved", value |-> JsValue("string", data)]

\* redirectCount > 5
TooManyRedirects(count) == count > MaxRedirects

\* res.statusCode >= 300 && res.statusCode < 400 && location
IsFollowedRedirect(res) ==
    /\ res.statusCode >= 300 /\ res.statusCode < 400
    /\ res.location # ""

\* treats the whole 2xx and 3xx range as success
IsSuccessOrRedirect(res) == res.statusCode >= 200 /\ res.statusCode < 400

\* res.statusCode >= 200 && res.statusCode < 300
IsSuccess(res) == res.statusCode >= 200 /\ res.statusCode < 300

\* the else branch: reject(new IBKRError(res.statusCode || 500, data || 'Unknown error'))
ResponseError(res) ==
    IBKRError(IF res.statusCode = 0 THEN 500 ELSE res.statusCode,
              IF res.data = "" THEN "Unknown error" ELSE res.data)

\* makeRequest(initialUrl, 0) has issued the first request
InitHttp ==
    /\ CoreQuiet
    /\ PagesIdle /\ RunsIdle /\ ConvIdle /\ PollIdle /\ GatewayIdle /\ LoginIdle
    /\ httpPc = "pending" /\ redirectCount = 0 /\ httpRequests = 1
    /\ httpLog = <<>> /\ httpResult = NoValue

\* res.on('end'): the response of the pending request is complete.  When
\* new URL rejects the Location of a redirect the handler throws: the promise
\* is neither resolved nor rejected and no request is pending
ResponseEnd ==
    /\ httpPc = "pending"
    /\ \E res \in Responses :
         /\ httpLog' = Append(httpLog, res)
         /\ IF IsFollowedRedirect(res)
              THEN IF ~NewURL(res.location).ok
                     THEN /\ httpPc' = "threw"
                          /\ UNCHANGED <<redirectCount, httpRequests, httpResult>>
                     ELSE IF TooManyRedirects(redirectCount + 1)
                     THEN /\ httpPc' = "rejected"
                          /\ httpResult' = IBKRError(0, "Too many redirects")
                          /\ UNCHANGED <<redirectCount, httpRequests>>
                     ELSE /\ redirectCount' = redirectCount + 1
                          /\ httpRequests' = httpRequests + 1
                          /\ UNCHANGED <<httpPc, httpResult>>
              ELSE /\ IF IsSuccess(res)
                        THEN /\ httpPc' = "resolved"
                             /\ httpResult' = ParsedBody(res.data)
                        ELSE /\ httpPc' = "rejected"
                             /\ httpResult' = ResponseError(res)
                   /\ UNCHANGED <<redirectCount, httpRequests>>
    /\ UNCHANGED <<coreVars, loginVars, gwVars, pollVars, convVars, pagesVars, runVars>>

\* req.on('error'): the transport failed
RequestError ==
    /\ httpPc = "pending"
    /\ httpLog' = Append(httpLog, [kind |-> "error"])
    /\ httpPc' = "rejected"
    /\ httpResult' = IBKRError(0, "Network error")
    /\ UNCHANGED <<coreVars, loginVars, gwVars, pollVars, convVars, pagesVars, runVars, redirectCount, httpRequests>>

\* req.setTimeout(timeout, ...): the request is destroyed
RequestTimeout ==
    /\ httpPc = "pending"
    /\ httpLog' = Append(httpLog, [kind |-> "timeout"])
    /\ httpPc' = "rejected"
    /\ httpResult' = IBKRError(0, "Request timeout")
    /\ UNCHANGED <<coreVars, loginVars, gwVars, pollVars, convVars, pagesVars, runVars, redirectCount, httpRequests>>

NextHttp == ResponseEnd \/ RequestError \/ RequestTimeout

\* the timeout set on every request makes each pending request end
SpecHttp == InitHttp /\ [][NextHttp]_vars /\ WF_vars(NextHttp)

\* the redirect responses the call has received
RedirectResponses ==
    Cardinality({n \in 1..Len(httpLog) :
                    httpLog[n].kind = "response" /\ IsFollowedRedirect(httpLog[n])})

Settled == httpPc \in {"resolved", "rejected"}

\* what the latest request ended with
LastEvent == httpLog[Len(httpLog)]

C22_HopsCapped ==
    /\ httpRequests <= MaxRedirects + 1
    /\ redirectCount <= MaxRedirects
    /\ httpPc = "pending" => httpRequests = RedirectResponses + 1
    /\ RedirectResponses > MaxRedirects =>
          /\ httpPc = "rejected"
          /\ httpResult = IBKRError(0, "Too many redirects")
          /\ httpRequests = MaxRedirects + 1

\* a settled call issues no further request
C22_NoRequestAfterSettling == Settled => httpRequests' = httpRequests

\* C22: ibkrRequest follows at most 5 redirect hops per call: more than 5
\* redirect responses end in IBKRError(0, 'Too many redirects'), a call never
\* issues more than 6 HTTP requests, and it always settles.
C22_RedirectsAreCapped ==
    /\ []C22_HopsCapped
    /\ [][C22_NoRequestAfterSettling]_vars
    /\ <>Settled

\* the end handler threw on the Location of a redirect
EndHandlerThrew ==
    /\ httpPc = "threw"
    /\ IsFollowedRedirect(LastEvent)
    /\ ~NewURL(LastEvent.location).ok

\* the part that holds: a call issues at most 6 requests and follows at most
\* 5 redirects; after more than 5 redirect responses it has issued 6 requests
\* and either was rejected with 'Too many redirects' or its end handler threw;
\* a settled call issues nothing more
C22_RequestsCapped ==
    /\ [](/\ httpRequests <= MaxRedirects + 1
          /\ redirectCount <= MaxRedirects
          /\ httpPc = "pending" => httpRequests = RedirectResponses + 1
          /\ RedirectResponses > MaxRedirects =>
                /\ httpRequests = MaxRedirects + 1
                /\ \/ EndHandlerThrew
                   \/ /\ httpPc = "rejected"
                      /\ httpResult = IBKRError(0, "Too many redirects"))
    /\ [][C22_NoRequestAfterSettling]_vars

\* the part that holds: a call settles unless its end handler throws
C22_SettlesUnlessHandlerThrows == <>(Settled \/ EndHandlerThrew)

\* six redirects in a row: six requests, then the rejection
C22_SixRedirectsReached ==
    /\ RedirectResponses = MaxRedirects + 1
    /\ httpRequests = MaxRedirects + 1
    /\ httpResult = IBKRError(0, "Too many redirects")

\* a redirect whose Location new URL rejects: nothing pending, nothing settled
C22_NeverSettlesReached ==
    /\ EndHandlerThrew
    /\ httpResult = NoValue
    /\ LastEvent = Response(302, "https://[", "")

C23_Resolves ==
    httpPc = "resolved" =>
        /\ LastEvent.kind = "response"
        /\ LastEvent.statusCode >= 200 /\ LastEvent.statusCode < 300
        /\ httpResult.value = IF LastEvent.data = "" THEN JsValue("object", "{}")
                              ELSE IF JsonParse(LastEvent.data).ok
                                     THEN JsonParse(LastEvent.data).value
                                     ELSE JsValue("string", LastEvent.data)

C23_Rejects ==
    httpPc = "rejected" =>
        IF LastEvent.kind = "response" /\ ~IsFollowedRedirect(LastEvent)
          THEN /\ LastEvent.statusCode >= 300
               /\ httpResult.statusCode = LastEvent.statusCode
          ELSE httpResult.statusCode = 0

\* a final response settles the call at once, by its status
C23_FinalResponseSettles ==
    (httpLog # <<>> /\ LastEvent.kind = "response" /\ ~IsFollowedRedirect(LastEvent)) =>
        httpPc = IF LastEvent.statusCode >= 200 /\ LastEvent.statusCode < 300
                   THEN "resolved" ELSE "rejected"

\* C23: ibkrRequest resolves for every final response with status in
\* [200,300), with the parsed JSON or the raw body when parsing fails, and
\* rejects with an IBKRError carrying the HTTP status for every response >= 300
\* that is not a followed redirect, and status 0 for transport errors,
\* timeouts and too many redirects.
C23_SettlesByStatus == C23_Resolves /\ C23_Rejects /\ C23_FinalResponseSettles

\* a redirect followed to a 3xx response without Location: rejected with 304
C23_Witness ==
    /\ RedirectResponses >= 1
    /\ LastEvent = Response(304, "", "cached")
    /\ httpResult = IBKRError(304, "cached")

\* a 200 whose body is not JSON resolves with the raw text
C23_RawBodyReached ==
    /\ httpPc = "resolved"
    /\ LastEvent = Response(200, "", "OK")
    /\ httpResult = [status |-> "resolved", value |-> JsValue("string", "OK")]

----------------------------------------------------------------------------
\* The handler of 'autoinvest:execute': every request starts a run of
\* executeAutoInvest at once; the runs share the account

\* the accounts the runs work on: cash in USD only, so no run converts
RunLedgers == { [c \in {"USD"} |-> [cashbalance |-> u]] : u \in {CashStep, 3 * CashStep} }

InitRuns ==
    /\ ledger \in RunLedgers
    /\ positions = <<PosVOO, PosQQQ, PosARKK>>
    /\ rateResp = [status |-> "ok", rate |-> 25]
    /\ secdef = "found"
    /\ allocations \in ExecAllocationLists
    /\ bufferPercent \in {0, 5}
    /\ CoreIdle
    /\ PagesIdle /\ HttpIdle /\ RunsIdle /\ ConvIdle /\ PollIdle /\ GatewayIdle /\ LoginIdle

\* ipcMain.handle(AUTOINVEST_EXECUTE): the handler calls executeAutoInvest,
\* which requests its plan; the first await of analyzePortfolio settles
ExecuteRequested(r) ==
    /\ runPc[r] = "idle"
    /\ runPc' = [runPc EXCEPT ![r] = "positions"]
    /\ runCall' = [runCall EXCEPT ![r] = Call("strict", ledger)]
    /\ UNCHANGED <<coreVars, loginVars, gwVars, pollVars, convVars, pagesVars, httpVars, runPlan, runK, placements>>

\* await getAllPositions(accountId) settles in the run
RunGotPositions(r) ==
    /\ runPc[r] = "positions"
    /\ runPc' = [runPc EXCEPT ![r] = "rate"]
    /\ runCall' = [runCall EXCEPT ![r] = [@ EXCEPT !.stage = "rate",
                                                    !.positions = positions]]
    /\ UNCHANGED <<coreVars, loginVars, gwVars, pollVars, convVars, pagesVars, httpVars, runPlan, runK, placements>>

\* the run moves to its next planned order, or returns
RunAfterOrder(r) ==
    IF runK[r] < Len(runPlan[r].ordersToPlace)
      THEN /\ runK' = [runK EXCEPT ![r] = @ + 1]
           /\ runPc' = [runPc EXCEPT ![r] = "preview"]
      ELSE /\ runPc' = [runPc EXCEPT ![r] = "done"]
           /\ UNCHANGED runK

\* await createAutoInvestPlan(accountId) settles with p
RunPlanReturned(r, p) ==
    /\ runPlan' = [runPlan EXCEPT ![r] = p]
    /\ IF p.status = "threw"
         THEN /\ runPc' = [runPc EXCEPT ![r] = "threw"]
              /\ UNCHANGED runK
         ELSE IF p.ordersToPlace = <<>>
                THEN /\ runPc' = [runPc EXCEPT ![r] = "done"]
                     /\ UNCHANGED runK
                ELSE /\ runPc' = [runPc EXCEPT ![r] = "preview"]
                     /\ runK' = [runK EXCEPT ![r] = 1]

\* await getExchangeRate settles in the run: the analysis is made from the
\* ledger and the positions of the earlier awaits and the allocations stored
\* now; the plan follows at once unless its loop has to wait for a search
RunPlanned(r) ==
    /\ runPc[r] = "rate"
    /\ LET a == AnalysisOf(runCall[r], rateResp, allocations) IN
         /\ runCall' = [runCall EXCEPT ![r] =
                           Finished(runCall[r], rateResp, allocations, a)]
         /\ IF PlanAwaits(a, bufferPercent, secdef)
              THEN /\ runPc' = [runPc EXCEPT ![r] = "search"]
                   /\ UNCHANGED <<runPlan, runK>>
              ELSE RunPlanReturned(r, PlanFor(a, bufferPercent, secdef))
    /\ UNCHANGED <<coreVars, loginVars, gwVars, pollVars, convVars, pagesVars, httpVars, placements>>

\* the searches of the loop have settled and the plan is returned
RunSearched(r) ==
    /\ runPc[r] = "search"
    /\ RunPlanReturned(r, PlanFor(runCall[r].returned, bufferPercent, secdef))
    /\ UNCHANGED <<coreVars, loginVars, gwVars, pollVars, convVars, pagesVars, httpVars, runCall, placements>>

\* await previewOrder(...) settles and canAffordOrder decides
RunPreviewed(r) ==
    /\ runPc[r] = "preview"
    /\ \E w \in ExecWhatIfs :
         LET check == CanAffordOrder(w, bufferPercent) IN
           IF check.status = "ok" /\ check.canAfford
             THEN /\ runPc' = [runPc EXCEPT ![r] = "place"]
                  /\ UNCHANGED runK
             ELSE RunAfterOrder(r)
    /\ UNCHANGED <<coreVars, loginVars, gwVars, pollVars, convVars, pagesVars, httpVars, runCall, runPlan, placements>>

\* what placeOrder and replyToOrder settle with in the runs
RunAnswers ==
    { Thrown, [order_id |-> 11], [id |-> 71, message |-> "confirm?"],
      [error |-> "rejected"] }

\* the place request of the order of run r, and how it ended: "success",
\* "failed", or "none" when the answers gave neither result
Placement(r, outcome) ==
    [run |-> r, order |-> runK[r], status |-> outcome,
     cost |-> runPlan[r].ordersToPlace[runK[r]].estimatedCost]

\* the run has the outcome of its order and moves on
RunOrderEnds(r, outcome) ==
    /\ placements' = Append(placements, Placement(r, outcome))
    /\ RunAfterOrder(r)

\* await placeOrder(...) settles
RunPlaced(r) ==
    /\ runPc[r] = "place"
    /\ \E answer \in RunAnswers :
         IF answer = Thrown THEN RunOrderEnds(r, "failed")
         ELSE IF NeedsConfirmation(answer)
         THEN /\ runPc' = [runPc EXCEPT ![r] = "reply"]
              /\ UNCHANGED <<runK, placements>>
         ELSE IF IsTerminal(answer) THEN RunOrderEnds(r, "success")
         ELSE RunOrderEnds(r, "none")
    /\ UNCHANGED <<coreVars, loginVars, gwVars, pollVars, convVars, pagesVars, httpVars, runCall, runPlan>>

\* await replyToOrder(firstResponse.id, true) settles
RunReplied(r) ==
    /\ runPc[r] = "reply"
    /\ \E answer \in RunAnswers :
         IF answer = Thrown THEN RunOrderEnds(r, "failed")
         ELSE IF IsTerminal(answer) THEN RunOrderEnds(r, "success")
         ELSE RunOrderEnds(r, "none")
    /\ UNCHANGED <<coreVars, loginVars, gwVars, pollVars, convVars, pagesVars, httpVars, runCall, runPlan>>

NextRuns ==
    \E r \in Runs :
        \/ ExecuteRequested(r)
        \/ RunGotPositions(r)
        \/ RunPlanned(r)
        \/ RunSearched(r)
        \/ RunPreviewed(r)
        \/ RunPlaced(r)
        \/ RunReplied(r)

SpecRuns == InitRuns /\ [][NextRuns]_vars

\* the runs in progress
RunsInProgress ==
    {r \in Runs : runPc[r] \in {"positions", "rate", "search", "preview", "place", "reply"}}

\* no placement of one run lies between two placements of another
PlacementsNotInterleaved ==
    \A a, b, c \in 1..Len(placements) :
        (a < b /\ b < c /\ placements[a].run = placements[c].run)
            => placements[b].run = placements[a].run

\* the estimated cost of the orders placed so far
RECURSIVE CostPlaced(_)
CostPlaced(log) ==
    IF log = <<>> THEN 0
    ELSE (IF Head(log).status = "success" THEN Head(log).cost ELSE 0)
            + CostPlaced(Tail(log))

\* the cash of the account, which no order of the model has changed
AccountCash == CashBalance(ledger, "USD") * Scale

\* C24: at most one executeAutoInvest run is in progress for an account at
\* any time; a second 'autoinvest:execute' request cannot interleave its
\* planning and placements with those of the first, so two runs never both
\* spend the same available cash.
C24_OneRunAtATime ==
    /\ Cardinality(RunsInProgress) <= 1
    /\ PlacementsNotInterleaved
    /\ CostPlaced(placements) <= AccountCash

\* two runs planned from the same cash and both placed their first order
C24_BothRunsPlaced ==
    /\ \A r \in Runs : runPlan[r] # NoValue
    /\ \E a, b \in 1..Len(placements) :
          /\ placements[a].run # placements[b].run
          /\ placements[a].status = "success" /\ placements[b].status = "success"
    /\ CostPlaced(placements) > AccountCash

----------------------------------------------------------------------------
\* The results returned by executeAutoInvest

\* the number of results with the given status
RECURSIVE CountStatus(_, _)
CountStatus(res, status) ==
    IF res = <<>> THEN 0
    ELSE (IF Head(res).status = status THEN 1 ELSE 0) + CountStatus(Tail(res), status)

\* the estimated cost of the planned orders whose result is 'success', with
\* result n taken as the result of planned order n
RECURSIVE InvestedIn(_, _)
InvestedIn(res, orders) ==
    IF res = <<>> \/ orders = <<>> THEN 0
    ELSE (IF Head(res).status = "success" THEN Head(orders).estimatedCost ELSE 0)
            + InvestedIn(Tail(res), Tail(orders))

\* the counters of the returned result agree with its results
C25_CountersMatch ==
    execPc = "done" =>
        /\ execResult.results = results
        /\ execResult.ordersPlaced = CountStatus(results, "success")
        /\ execResult.ordersFailed = CountStatus(results, "failed")

\* C25: when executeAutoInvest returns, results holds exactly one OrderResult
\* per planned order, in plan order; ordersPlaced is the number of 'success'
\* results, ordersFailed the number of 'failed' results, and totalInvested the
\* sum of estimatedCost over the 'success' results only.
C25_OneResultPerOrder ==
    execPc = "done" =>
        /\ Len(results) = Len(PlannedOrders)
        /\ \A n \in 1..Len(results) :
              /\ results[n].symbol = PlannedOrders[n].symbol
              /\ results[n].shares = PlannedOrders[n].shares
        /\ C25_CountersMatch
        /\ execResult.totalInvested = InvestedIn(results, PlannedOrders)

\* a run returned with fewer results than planned orders
C25_OrderWithoutResult ==
    /\ execPc = "done"
    /\ Len(results) < Len(PlannedOrders)

----------------------------------------------------------------------------
\* Properties of the greedy walk of createAutoInvestPlan, checked on SpecPlan

\* the walk is under way or has returned its plan
Walked == planPc \in {"walk", "planned"} /\ underweightPositions # <<>>

\* the candidate the next iteration considers
Candidate == underweightPositions[i]

SameDeviation(a, b) == ~DeviationGreater(a, b) /\ ~DeviationGreater(b, a)

\* a comes before b among the analysed positions
AnalysedBefore(a, b) ==
    \E m, n \in 1..Len(analysis.positions) :
        m < n /\ analysis.positions[m] = a /\ analysis.positions[n] = b

\* the number of analysed positions that pass the filter
RECURSIVE CountUnderweight(_)
CountUnderweight(ps) ==
    IF ps = <<>> THEN 0
    ELSE (IF IsUnderweight(Head(ps)) THEN 1 ELSE 0) + CountUnderweight(Tail(ps))

\* the candidates are the underweight analysed positions, most underweight
\* first, equal deviations in the order of the analysis
CandidatesFilteredAndSorted ==
    /\ Len(underweightPositions) = CountUnderweight(analysis.positions)
    /\ \A j \in 1..Len(underweightPositions) :
          /\ IsUnderweight(underweightPositions[j])
          /\ \E n \in 1..Len(analysis.positions) :
                analysis.positions[n] = underweightPositions[j]
    /\ \A j \in 1..(Len(underweightPositions) - 1) :
          LET a == underweightPositions[j]
              b == underweightPositions[j + 1]
          IN  /\ ~DeviationGreater(b, a)
              /\ (SameDeviation(a, b) /\ a # b) => AnalysedBefore(a, b)

\* C26: every planned order belongs to a position with deviation > 0,
\* sharesToBuy > 0 and price > 0; the orders are in non-increasing deviation
\* order (equal deviations keep allocation order); each order's priority is
\* its 1-based rank among the filtered, sorted candidates, so priorities
\* strictly increase along the plan even when candidates were skipped.
C26_OrdersFollowCandidates ==
    Walked =>
        /\ CandidatesFilteredAndSorted
        /\ \A n \in 1..Len(ordersToPlace) :
              /\ ordersToPlace[n].priority \in 1..Len(underweightPositions)
              /\ LET p == underweightPositions[ordersToPlace[n].priority]
                 IN  /\ p.symbol = ordersToPlace[n].symbol
                     /\ p.pricePerShare = ordersToPlace[n].pricePerShare
                     /\ p.deviationPercent.num > 0
                     /\ p.sharesToBuy > 0
                     /\ p.pricePerShare > 0
        /\ \A n \in 1..(Len(ordersToPlace) - 1) :
              /\ ordersToPlace[n].priority < ordersToPlace[n + 1].priority
              /\ ~DeviationGreater(underweightPositions[ordersToPlace[n + 1].priority],
                                   underweightPositions[ordersToPlace[n].priority])
        /\ planPc = "planned" => plan.ordersToPlace = ordersToPlace

\* C26 witness: the first candidate was skipped, and the one order of the
\* returned plan carries priority 2
C26_Witness ==
    /\ planPc = "planned"
    /\ Len(underweightPositions) = 2
    /\ Len(plan.ordersToPlace) = 1
    /\ plan.ordersToPlace[1].priority = 2
    /\ plan.ordersToPlace[1].symbol = underweightPositions[2].symbol

\* two different candidates of equal deviation, in the order of the analysis
C26_EqualDeviationsReached ==
    /\ Walked
    /\ Len(underweightPositions) = 2
    /\ underweightPositions[1] # underweightPositions[2]
    /\ SameDeviation(underweightPositions[1], underweightPositions[2])

\* the iteration at hand has added an order
OrderAdded == planPc = "walk" /\ Len(ordersToPlace') = Len(ordersToPlace) + 1

\* the order the iteration has added
NewOrder == ordersToPlace'[Len(ordersToPlace')]

C27_SharesOfNewOrder ==
    OrderAdded =>
        /\ NewOrder.shares = Min(Candidate.sharesToBuy,
                                 Floor(remainingCash, Candidate.pricePerShare))
        /\ NewOrder.shares >= 1
        /\ NewOrder.shares <= Candidate.sharesToBuy
        /\ NewOrder.pricePerShare = Candidate.pricePerShare
        /\ NewOrder.estimatedCost = NewOrder.shares * NewOrder.pricePerShare

C27_SharesOfPlannedOrders ==
    Walked =>
        \A n \in 1..Len(ordersToPlace) :
            /\ ordersToPlace[n].shares \in Nat
            /\ ordersToPlace[n].shares >= 1
            /\ ordersToPlace[n].estimatedCost
                  = ordersToPlace[n].shares * ordersToPlace[n].pricePerShare
            /\ ordersToPlace[n].shares
                  <= underweightPositions[ordersToPlace[n].priority].sharesToBuy

\* C27: each planned order has a whole number of shares with
\* 1 <= shares = min(position.sharesToBuy, floor(remainingCash / price)) at the
\* time the candidate is considered, and estimatedCost = shares *
\* pricePerShare; an order never buys more shares than the target needs.
C27_SharesWithinCashAndTarget ==
    []C27_SharesOfPlannedOrders /\ [][C27_SharesOfNewOrder]_vars

\* C27 witness: a plan whose first order reaches the target and whose second
\* is cut to the shares the remaining cash affords
C27_Witness ==
    /\ planPc = "planned"
    /\ Len(plan.ordersToPlace) = 2
    /\ plan.ordersToPlace[1].shares = underweightPositions[1].sharesToBuy
    /\ plan.ordersToPlace[2].shares < underweightPositions[2].sharesToBuy
    /\ plan.ordersToPlace[2].shares >= 1

\* the instrument id of the position is known or the lookup finds it
Resolves(position) ==
    \/ position.conid # 0
    \/ /\ FindConid(position.symbol, secdef).status = "ok"
       /\ FindConid(position.symbol, secdef).conid # 0

ConidResolves == Resolves(Candidate)

\* the candidate at hand costs more per share than the cash that remains
TooExpensive == planPc = "walk" /\ remainingCash < Candidate.pricePerShare

\* the loop moves to the next candidate, or returns the plan after the last
WalkGoesOn ==
    IF i < Len(underweightPositions)
      THEN planPc' = "walk" /\ i' = i + 1
      ELSE planPc' = "planned" /\ plan'.ordersToPlace = ordersToPlace'

C28_SkipStep ==
    /\ TooExpensive =>
          /\ ordersToPlace' = ordersToPlace
          /\ remainingCash' = remainingCash
          /\ WalkGoesOn
    /\ (planPc = "walk" /\ ~TooExpensive /\ ConidResolves) =>
          /\ Len(ordersToPlace') = Len(ordersToPlace) + 1
          /\ NewOrder.symbol = Candidate.symbol
          /\ NewOrder.priority = i

\* the walk has returned its plan
WalkReturned == planPc = "planned" /\ Walked

\* the loop ran the iteration of candidate n
Reached(n) == n < i

\* the orders of the candidates before candidate n
OrdersBefore(n) == SelectSeq(plan.ordersToPlace, LAMBDA o : o.priority < n)

\* the cash that remained when the walk came to candidate n; for a
\* candidate the walk did not come to, the cash that remained at the end
CashAt(n) == plan.totalAvailableUSD - SumEstimatedCost(OrdersBefore(n))

HasOrder(n) == \E m \in 1..Len(plan.ordersToPlace) : plan.ordersToPlace[m].priority = n

\* candidate j was skipped because one share cost more than the cash
SkippedForPrice(j) ==
    Reached(j) /\ CashAt(j) < underweightPositions[j].pricePerShare

\* candidate n comes after the skipped candidate j, costs no more per share
\* than the cash that remains, and its instrument id resolves
LaterAffordable(j, n) ==
    /\ j \in 1..Len(underweightPositions) /\ n \in (j + 1)..Len(underweightPositions)
    /\ SkippedForPrice(j)
    /\ underweightPositions[n].pricePerShare <= CashAt(n)
    /\ Resolves(underweightPositions[n])

C28_LaterCandidates ==
    WalkReturned =>
        \A j, n \in 1..Len(underweightPositions) :
            LaterAffordable(j, n) =>
                \/ HasOrder(n)
                \/ /\ ~Reached(n)
                   /\ i - 1 > j
                   /\ remainingCash < Usd(MinRemainingCash)

C28_SkipThenOrderReached ==
    /\ Walked
    /\ Len(underweightPositions) = 2
    /\ Len(ordersToPlace) = 1
    /\ ordersToPlace[1].priority = 2
    /\ AvailableUSD(analysis, bufferPercent) < underweightPositions[1].pricePerShare
    /\ AvailableUSD(analysis, bufferPercent) >= underweightPositions[2].pricePerShare

\* no order is added while the remaining cash is below 10
C29_NoOrderBelowThreshold ==
    (planPc = "walk" /\ remainingCash < Usd(MinRemainingCash)) =>
        /\ ordersToPlace' = ordersToPlace
        /\ planPc' # "walk"

\* C29: createAutoInvestPlan stops the walk once remaining cash is below 10:
\* no candidate is given an order while the remaining cash is below 10,
\* whether it dropped below 10 after an order, was below 10 from the start, or
\* the previous candidate was skipped.
C29_WalkStopsBelowThreshold == [][C29_NoOrderBelowThreshold]_vars

\* the part that holds: an iteration that runs to its end with less than 10
\* left returns the plan
C29_BreakAfterIteration ==
    [][(planPc = "walk" /\ ~TooExpensive /\ remainingCash' < Usd(MinRemainingCash))
          => planPc' # "walk"]_vars

\* an order planned from less than 10 of cash
C29_OrderBelowThresholdReached ==
    /\ planPc = "planned"
    /\ AvailableUSD(analysis, bufferPercent) < Usd(MinRemainingCash)
    /\ Len(plan.ordersToPlace) >= 1

\* the candidate at hand has no instrument id and the lookup finds none
ConidUnresolved ==
    /\ planPc = "walk"
    /\ ~TooExpensive
    /\ Candidate.conid = 0
    /\ CommonConid(ToUpperCase(Candidate.symbol)) = 0
    /\ secdef \in {"empty", "throw"}

C30_UnresolvedStep ==
    ConidUnresolved =>
        /\ planPc' # "threw"
        /\ ordersToPlace' = ordersToPlace
        /\ remainingCash' = remainingCash
        /\ (i < Len(underweightPositions) /\ remainingCash >= Usd(MinRemainingCash))
              => (planPc' = "walk" /\ i' = i + 1)

\* C30: when a candidate has no known instrument id and the lookup does not
\* resolve one (the search returns nothing or the search request fails), the
\* candidate is skipped: no order is added, remaining cash is unchanged, and
\* planning continues with the next candidate instead of failing the plan.
C30_UnresolvedCandidateIsSkipped == [][C30_UnresolvedStep]_vars

\* the part that holds: an empty search result skips the candidate
C30_EmptySearchSkips == [][secdef = "empty" => C30_UnresolvedStep]_vars

\* a failed search has failed the whole plan
C30_PlanFailedReached ==
    /\ planPc = "threw"
    /\ analysis.status = "ok"
    /\ secdef = "throw"

----------------------------------------------------------------------------
\* The order of the conversion and the equity orders in executeAutoInvest

\* executeAutoInvest holds a plan
RunHasPlan == execPc \in {"convert", "preview", "place", "reply", "done"}

\* convertIlsToUsdAndWait has settled
ConversionSettled == conversionResult # NoValue

C31_ConversionState ==
    RunHasPlan =>
        /\ execPc = "convert" =>
              /\ plan.ilsToConvert > MinIlsToConvert
              /\ ~ConversionSettled
              /\ sent = <<>>
        /\ execPc # "convert" =>
              (ConversionSettled <=> plan.ilsToConvert > MinIlsToConvert)
        /\ ~ConversionSettled => currencyConversion = NoValue
        /\ sent # <<>> => execPc # "convert"

C31_ConversionStep ==
    /\ ConversionSettled => conversionResult' = conversionResult
    /\ (execPc # "convert" /\ execPc' = "convert") => execPc \in {"analysis", "planning"}
    /\ (sent = <<>> /\ sent' # <<>>) =>
          /\ execPc = "preview"
          /\ sent' = <<Request("whatif", 1)>>
          /\ (plan.ilsToConvert > MinIlsToConvert => ConversionSettled)

\* C31: executeAutoInvest attempts the currency conversion exactly when
\* plan.ilsToConvert is strictly greater than 100, at most once per run, and
\* the conversion (its fill wait included) has finished before the first
\* equity order's preview is issued.
C31_ConversionBeforeOrders == []C31_ConversionState /\ [][C31_ConversionStep]_vars

\* C31 witness: 200 ILS were converted and the first preview has been issued
C31_Witness ==
    /\ RunHasPlan
    /\ plan.ilsToConvert = 200
    /\ ConversionSettled
    /\ Len(sent) >= 1
    /\ sent[1] = Request("whatif", 1)

\* exactly 100 ILS: no conversion, and the orders are under way
C31_ThresholdReached ==
    /\ RunHasPlan
    /\ plan.ilsToConvert = MinIlsToConvert
    /\ ~ConversionSettled
    /\ Len(sent) >= 1

----------------------------------------------------------------------------
\* The order of the requests of a run of executeAutoInvest

\* the kinds of request an order may have had, in order
OrderProtocol == <<"whatif", "place", "reply">>

\* a request of the run is awaited
AwaitingOrder == execPc \in {"preview", "place", "reply"}

\* the requests in the log are grouped by order, orders ascending, each
\* order a prefix of what-if, place, reply
C32_RequestsInPlanOrder ==
    /\ sent # <<>> => sent[1] = Request("whatif", 1)
    /\ \A j \in 1..(Len(sent) - 1) :
          \/ /\ sent[j + 1].order = sent[j].order
             /\ sent[j + 1].req # "whatif"
          \/ /\ sent[j + 1].order = sent[j].order + 1
             /\ sent[j + 1].req = "whatif"
    /\ \A n \in 1..Len(PlannedOrders) :
          /\ Len(KindsOf(sent, n)) <= Len(OrderProtocol)
          /\ KindsOf(sent, n) = SubSeq(OrderProtocol, 1, Len(KindsOf(sent, n)))
    /\ \A j \in 1..Len(sent) : sent[j].order \in 1..Len(PlannedOrders)
    /\ AwaitingOrder => \A j \in 1..Len(sent) : sent[j].order <= k

\* a request is sent for the order the loop is at, and the loop goes to
\* the next order only; an order the loop has left gets no further request
C32_OneOrderStep ==
    /\ sent' # sent =>
          /\ AwaitingOrder
          /\ Len(sent') = Len(sent) + 1
          /\ SubSeq(sent', 1, Len(sent)) = sent
          /\ sent'[Len(sent')].order = k
    /\ AwaitingOrder => k' \in {k, k + 1}
    /\ (AwaitingOrder /\ k' = k + 1) => execPc' = "preview"

\* the part that holds: the orders are processed one at a time in plan
\* order; the preview of order k+1 is not issued until every request of
\* order k has settled and the loop has left order k.
C32_OneOrderAtATime == []C32_RequestsInPlanOrder /\ [][C32_OneOrderStep]_vars

\* C32: within one run, planned orders are processed strictly one at a time
\* in plan order: the preview of order k+1 is not issued until order k has
\* reached its outcome (skipped, success or failed), and no two place or
\* reply requests of different orders are outstanding together.
C32_NextPreviewAfterOutcome ==
    /\ C32_RequestsInPlanOrder
    /\ AwaitingOrder =>
          /\ Len(results) = k - 1
          /\ \A n \in 1..Len(results) :
                results[n].status \in {"skipped", "success", "failed"}

\* order 1 was placed after a confirmation, and the preview of order 2
\* followed
C32_SecondOrderReached ==
    /\ Len(sent) = 4
    /\ KindsOf(sent, 1) = OrderProtocol
    /\ sent[4] = Request("whatif", 2)
    /\ Len(results) >= 1
    /\ results[1].status = "success"

\* the preview of order 2 was issued although order 1 has no result
C32_PreviewWithoutOutcome ==
    /\ execPc = "place"
    /\ k = 2
    /\ results = <<>>

----------------------------------------------------------------------------
\* convertIlsToUsd: the conversion order, previewed, placed and confirmed

\* FOREX_CONIDS['USD.ILS']
UsdIlsConid == 15016062

\* FOREX_CONIDS[upperPair], 0 for a pair the table does not hold
ForexConids(upperPair) == IF upperPair = "USD.ILS" THEN UsdIlsConid ELSE 0

\* what searchForexContract settles with: a rejection, no result, results
ForexSearches ==
    { Thrown, [results |-> <<>>],
      [results |-> <<[conid |-> 12087792, symbol |-> "EUR.USD"]>>] }

\* getForexConid(pair) gets past the cache and awaits searchForexContract
SearchesForex(pair) == ForexConids(ToUpperCase(pair)) = 0

\* getForexConid(pair), search being what searchForexContract settles with
\* when it is asked: the cached conid of the upper-cased pair, else the
\* conid of the first result, else null (0)
GetForexConid(pair, search) ==
    IF ~SearchesForex(pair) THEN ForexConids(ToUpperCase(pair))
    ELSE IF search = Thrown THEN 0
    ELSE IF search.results = <<>> THEN 0
    ELSE search.results[1].conid

\* the amounts convertIlsToUsd is called with
IlsAmounts == {-5, 0, 150, 200}

\* what previewOrder resolves with for the conversion order
ForexPreviews == { [amount |-> "200 ILS"], [error |-> "No trading permission"] }

\* the first element of what placeOrder and replyToOrder resolve with for
\* the conversion order; [empty |-> TRUE] is an empty array or no array
ForexReplies ==
    { [order_id |-> 31], [id |-> 71, message |-> "confirm?"],
      [id |-> 72, message |-> "confirm again?"], [error |-> "rejected"],
      [empty |-> TRUE] }

ConversionFailure(message) == [success |-> FALSE, orderId |-> 0, message |-> message]

ConversionSuccess(orderId) ==
    [success |-> TRUE, orderId |-> orderId, message |-> "placed",
     convertedAmount |-> ilsAmount]

\* 'id' in response && 'message' in response
AsksConfirmation(r) == {"id", "message"} \subseteq DOMAIN r

\* 'order_id' in response
HasOrderId(r) == "order_id" \in DOMAIN r

\* an entry of the request log
ForexRequest(kind, answer) == [req |-> kind, answer |-> answer]

\* the function returns
ConvReturns(result) == convPc' = "done" /\ convResult' = result

\* catch (previewError): the warning is logged and the order is placed anyway
PreviewFailureContinues == convPc' = "place" /\ convResult' = convResult

InitConvert ==
    /\ CoreQuiet
    /\ PagesIdle /\ HttpIdle /\ RunsIdle /\ PollIdle /\ GatewayIdle /\ LoginIdle
    /\ ConvIdle

\* convertIlsToUsd(accountId, amount) up to its first request; FOREX_CONIDS
\* answers getForexConid('USD.ILS') and no search is sent
ConvertStart ==
    /\ convPc = "idle"
    /\ convResult = NoValue
    /\ \E amount \in IlsAmounts :
         /\ ilsAmount' = amount
         /\ IF amount <= 0
              THEN ConvReturns(ConversionFailure("ILS amount must be greater than 0"))
              ELSE IF GetForexConid("USD.ILS", NoValue) = 0
                     THEN ConvReturns(ConversionFailure("Could not find USD.ILS forex contract"))
                     ELSE convPc' = "preview" /\ convResult' = convResult
    /\ UNCHANGED <<coreVars, loginVars, gwVars, pollVars, pagesVars, httpVars, runVars, convSent>>

\* await previewOrder(accountId, [forexOrder]) settles
ConvPreview ==
    /\ convPc = "preview"
    /\ \/ /\ convSent' = Append(convSent, ForexRequest("whatif", Thrown))
          /\ PreviewFailureContinues
       \/ \E r \in ForexPreviews :
            /\ convSent' = Append(convSent, ForexRequest("whatif", r))
            /\ IF HasError(r)
                 THEN ConvReturns(ConversionFailure("Order preview failed"))
                 ELSE convPc' = "place" /\ convResult' = convResult
    /\ UNCHANGED <<coreVars, loginVars, gwVars, pollVars, pagesVars, httpVars, runVars, ilsAmount>>

\* await placeOrder(accountId, [forexOrder]) settles
ConvPlace ==
    /\ convPc = "place"
    /\ \/ /\ convSent' = Append(convSent, ForexRequest("place", Thrown))
          /\ ConvReturns(ConversionFailure("Currency conversion failed"))
       \/ \E r \in ForexReplies :
            /\ convSent' = Append(convSent, ForexRequest("place", r))
            /\ IF AsksConfirmation(r)
                 THEN convPc' = "reply" /\ convResult' = convResult
                 ELSE IF HasOrderId(r)
                        THEN ConvReturns(ConversionSuccess(r.order_id))
                        ELSE ConvReturns(ConversionFailure("Unexpected response"))
    /\ UNCHANGED <<coreVars, loginVars, gwVars, pollVars, pagesVars, httpVars, runVars, ilsAmount>>

\* await replyToOrder(firstResponse.id, true) settles
ConvReply ==
    /\ convPc = "reply"
    /\ \/ /\ convSent' = Append(convSent, ForexRequest("reply", Thrown))
          /\ ConvReturns(ConversionFailure("Currency conversion failed"))
       \/ \E r \in ForexReplies :
            /\ convSent' = Append(convSent, ForexRequest("reply", r))
            /\ IF AsksConfirmation(r)
                 THEN convPc' = "reply2" /\ convResult' = convResult
                 ELSE IF HasOrderId(r)
                        THEN ConvReturns(ConversionSuccess(r.order_id))
                        ELSE ConvReturns(ConversionFailure("Unexpected response"))
    /\ UNCHANGED <<coreVars, loginVars, gwVars, pollVars, pagesVars, httpVars, runVars, ilsAmount>>

\* await replyToOrder(confirmed.id, true) settles
ConvSecondReply ==
    /\ convPc = "reply2"
    /\ \/ /\ convSent' = Append(convSent, ForexRequest("reply", Thrown))
          /\ ConvReturns(ConversionFailure("Currency conversion failed"))
       \/ \E r \in ForexReplies :
            /\ convSent' = Append(convSent, ForexRequest("reply", r))
            /\ IF HasOrderId(r)
                 THEN ConvReturns(ConversionSuccess(r.order_id))
                 ELSE ConvReturns(ConversionFailure("Unexpected response"))
    /\ UNCHANGED <<coreVars, loginVars, gwVars, pollVars, pagesVars, httpVars, runVars, ilsAmount>>

NextConvert == ConvertStart \/ ConvPreview \/ ConvPlace \/ ConvReply \/ ConvSecondReply

SpecConvert == InitConvert /\ [][NextConvert]_vars

\* the preview of the conversion order has completed without error
PreviewClean ==
    /\ convSent # <<>>
    /\ convSent[1].req = "whatif"
    /\ convSent[1].answer # Thrown
    /\ ~HasError(convSent[1].answer)

\* a placement request has been sent
PlacementSent == \E j \in 1..Len(convSent) : convSent[j].req = "place"

\* C33: convertIlsToUsd sends the placement request for the conversion
\* order only after a what-if preview of that order has completed without
\* error: a preview response with an error field, and equally a preview
\* request that fails, ends the conversion as failed with no order placed;
\* convertIlsToUsd never throws.
C33_PlacesOnlyAfterCleanPreview ==
    /\ PlacementSent => PreviewClean
    /\ (convSent # <<>> /\ ~PreviewClean) =>
          /\ convPc = "done"
          /\ convResult.success = FALSE
          /\ Len(convSent) = 1
    /\ convPc \in {"idle", "preview", "place", "reply", "reply2", "done"}
    /\ convPc = "done" => convResult # NoValue

\* the part that holds: a preview response with an error field ends the
\* conversion as failed with no order placed
C33_PreviewErrorEnds ==
    (convSent # <<>> /\ convSent[1].answer # Thrown /\ HasError(convSent[1].answer)) =>
        /\ convPc = "done"
        /\ convResult.success = FALSE
        /\ ~PlacementSent

\* a conversion order placed after its preview request had failed
C33_PlacedAfterFailedPreview ==
    /\ convPc = "done"
    /\ convSent # <<>>
    /\ convSent[1] = ForexRequest("whatif", Thrown)
    /\ PlacementSent
    /\ convResult.success

----------------------------------------------------------------------------
\* getAuthStatus: the auth-status request and what its failure turns into

\* the object returned for a 302 or a 401
NotAuthenticated ==
    [authenticated |-> FALSE, competing |-> FALSE, connected |-> FALSE,
     message |-> "Not authenticated"]

\* error instanceof IBKRError && (statusCode === 302 || statusCode === 401)
MeansNotAuthenticated(error) == error.statusCode \in {302, 401}

\* getAuthStatus over the outcome of its ibkrRequest: the resolved value is
\* returned as it is, a 302 or 401 error becomes the not-authenticated
\* object, any other error is thrown again
GetAuthStatus(outcome) ==
    IF outcome.status = "resolved"
      THEN [kind |-> "result", value |-> outcome.value]
      ELSE IF MeansNotAuthenticated(outcome)
             THEN [kind |-> "notAuthenticated", value |-> NotAuthenticated]
             ELSE [kind |-> "throw", error |-> outcome]

\* the answer to the auth-status request itself (later requests of the call
\* go to the redirect targets)
FirstAnswer == httpLog[1]

AnsweredWith302Or401 ==
    /\ httpLog # <<>>
    /\ FirstAnswer.kind = "response"
    /\ FirstAnswer.statusCode \in {302, 401}

\* C34: getAuthStatus returns a not-authenticated status object, and does
\* not throw, whenever the auth-status request is answered with HTTP 401 or
\* HTTP 302; every other failure is rethrown.
C34_NotAuthenticatedOn302Or401 ==
    Settled =>
        /\ AnsweredWith302Or401 =>
              GetAuthStatus(httpResult).kind = "notAuthenticated"
        /\ (httpPc = "rejected" /\ ~AnsweredWith302Or401) =>
              GetAuthStatus(httpResult).kind = "throw"

\* the part that holds: it is the error ibkrRequest rejects with that
\* decides, that is the last response of the redirect chain
C34_DecidedByFinalError ==
    (Settled /\ httpPc = "rejected") =>
        IF LastEvent.kind = "response" /\ LastEvent.statusCode \in {302, 401}
             /\ ~IsFollowedRedirect(LastEvent)
          THEN GetAuthStatus(httpResult).kind = "notAuthenticated"
          ELSE GetAuthStatus(httpResult).kind = "throw"

\* a 302 with a Location header followed to a page that answers 200: the
\* page text is returned as the status
C34_RedirectedToLoginPage ==
    /\ httpPc = "resolved"
    /\ Len(httpLog) = 2
    /\ httpLog[1] = Response(302, "/sso/Login", "moved")
    /\ httpLog[2] = Response(200, "", "OK")
    /\ GetAuthStatus(httpResult).kind = "result"

\* a 302 with a Location header followed to a failing page: the error is
\* thrown
C34_RedirectedToError ==
    /\ httpPc = "rejected"
    /\ AnsweredWith302Or401
    /\ GetAuthStatus(httpResult).kind = "throw"

----------------------------------------------------------------------------
\* SpecPoll: pollUntil with any check function.  Time is counted in seconds.

\* the options pollUntil is called with
PollTimeouts == {0, 3, 4}
PollIntervals == {1, 2}

\* how long a call of checkFn takes to settle
CheckDurations == {0, 1, 3}

\* what a call of checkFn settles with
CheckOutcomes == {"true", "false", "reject"}

\* while (Date.now() - startTime <= timeoutMs)
LoopGoesOnAtTimeout(now, timeout) == now <= timeout

\* while (Date.now() - startTime < timeoutMs)
LoopGoesOn(now, timeout) == now < timeout

\* a function has returned the value
Returned(value) == [status |-> "returned", value |-> value]

\* a call of checkFn that has not settled yet
PendingCheck == [outcome |-> "pending"]

\* the loop test and what follows it without a pause: the next call of
\* checkFn, or return false
LoopTest(now, timeout) ==
    IF LoopGoesOn(now, timeout)
      THEN /\ pollPc' = "checking"
           /\ pollChecks' = Append(pollChecks, PendingCheck)
           /\ pollReturn' = pollReturn
      ELSE /\ pollPc' = "done"
           /\ pollReturn' = Returned(FALSE)
           /\ pollChecks' = pollChecks

InitPoll ==
    /\ CoreQuiet
    /\ PagesIdle /\ HttpIdle /\ RunsIdle /\ ConvIdle /\ GatewayIdle /\ LoginIdle
    /\ PollIdle

\* pollUntil(checkFn, options) up to its first await
PollUntil ==
    /\ pollPc = "idle"
    /\ \E t \in PollTimeouts, iv \in PollIntervals :
          /\ timeoutMs' = t
          /\ intervalMs' = iv
          /\ LoopTest(0, t)
    /\ pollElapsed' = 0
    /\ UNCHANGED <<coreVars, loginVars, gwVars, pagesVars, httpVars, runVars, convVars>>

\* await checkFn() settles: true returns, false and a rejection go to sleep
CheckSettles ==
    /\ pollPc = "checking"
    /\ \E outcome \in CheckOutcomes, took \in CheckDurations :
          /\ pollChecks' = [pollChecks EXCEPT ![Len(pollChecks)] = [outcome |-> outcome]]
          /\ pollElapsed' = pollElapsed + took
          /\ IF outcome = "true"
               THEN pollPc' = "done" /\ pollReturn' = Returned(TRUE)
               ELSE pollPc' = "sleeping" /\ pollReturn' = pollReturn
    /\ UNCHANGED <<coreVars, loginVars, gwVars, pagesVars, httpVars, runVars, convVars, timeoutMs, intervalMs>>

\* await sleep(intervalMs) ends and the loop test follows
SleepEnds ==
    /\ pollPc = "sleeping"
    /\ pollElapsed' = pollElapsed + intervalMs
    /\ LoopTest(pollElapsed + intervalMs, timeoutMs)
    /\ UNCHANGED <<coreVars, loginVars, gwVars, pagesVars, httpVars, runVars, convVars, timeoutMs, intervalMs>>

NextPoll == PollUntil \/ CheckSettles \/ SleepEnds

\* every call of checkFn settles and every sleep ends
SpecPoll == InitPoll /\ [][NextPoll]_vars /\ WF_vars(NextPoll)

ChecksPending ==
    Cardinality({n \in 1..Len(pollChecks) : pollChecks[n] = PendingCheck})

ChecksWith(outcome) ==
    Cardinality({n \in 1..Len(pollChecks) : pollChecks[n].outcome = outcome})

\* at most one call of checkFn is unsettled, it is the last one, exactly
\* when pollUntil is awaiting it; true is returned right after the one check
\* that resolved true, false only after the timeout with no such check
C35_PollState ==
    /\ ChecksPending <= 1
    /\ \A n \in 1..Len(pollChecks) :
          pollChecks[n] = PendingCheck => (n = Len(pollChecks) /\ pollPc = "checking")
    /\ \A n \in 1..Len(pollChecks) :
          pollChecks[n].outcome = "true" =>
              (n = Len(pollChecks) /\ pollPc = "done" /\ pollReturn = Returned(TRUE))
    /\ pollPc = "done" =>
          IF pollReturn.value
            THEN ChecksWith("true") = 1
            ELSE pollElapsed >= timeoutMs /\ ChecksWith("true") = 0
    /\ pollPc \in {"idle", "checking", "sleeping", "done"}

\* a check that resolves true ends the call with true in that step; a check
\* that rejects or resolves false is followed by the sleep; a new check
\* starts only from the loop test with the timeout not yet elapsed, and the
\* loop test with the timeout elapsed returns false
C35_PollStep ==
    /\ (pollPc = "checking" /\ pollChecks' # pollChecks) =>
          IF pollChecks'[Len(pollChecks)].outcome = "true"
            THEN pollPc' = "done" /\ pollReturn' = Returned(TRUE)
            ELSE pollPc' = "sleeping" /\ pollReturn' = pollReturn
                   /\ Len(pollChecks') = Len(pollChecks)
    /\ Len(pollChecks') > Len(pollChecks) =>
          /\ pollPc \in {"idle", "sleeping"}
          /\ ChecksPending = 0
          /\ pollElapsed' < timeoutMs'
    /\ (pollPc \in {"idle", "sleeping"} /\ pollPc' # pollPc) =>
          IF pollElapsed' >= timeoutMs'
            THEN pollPc' = "done" /\ pollReturn' = Returned(FALSE)
            ELSE pollPc' = "checking"

\* C35: pollUntil returns true as soon as a check resolves true, treats a
\* rejecting check as 'not yet' and keeps polling without propagating the
\* error, returns false once the timeout has elapsed, and never starts a
\* check before the previous check has settled.
C35_PollUntil ==
    /\ []C35_PollState
    /\ [][C35_PollStep]_vars
    /\ <>(pollPc = "done")

\* a call that polled on after a rejecting check and returned false at the
\* timeout
C35_Witness ==
    /\ pollPc = "done"
    /\ pollReturn = Returned(FALSE)
    /\ Len(pollChecks) = 2
    /\ pollChecks[1].outcome = "reject"

\* a call that returned true at its second check, after a rejecting one
C35_TrueAfterRejection ==
    /\ pollPc = "done"
    /\ pollReturn = Returned(TRUE)
    /\ Len(pollChecks) = 2
    /\ pollChecks[1].outcome = "reject"

----------------------------------------------------------------------------
\* allocations without a priced position

\* the analysis has been computed
Analysed == "positions" \in DOMAIN analysis

\* positions.find(...) gives nothing for the allocation among the positions
\* the call read, or a position with market price 0
Unpriced(allocation) ==
    LET n == FindPosition(LastCall.positions, allocation.symbol)
    IN  n = 0 \/ LastCall.positions[n].mktPrice = 0

\* an order for the symbol is in the list
OrderedIn(orders, symbol) ==
    \E n \in 1..Len(orders) : orders[n].symbol = symbol

\* C36: an allocation with no matching held position (or whose position has
\* market price 0) is analysed with pricePerShare 0 and sharesToBuy 0, and
\* therefore never receives a planned order.
C36_UnpricedAllocationNotPlanned ==
    Analysed =>
        \A n \in 1..Len(LastCall.allocations) :
            Unpriced(LastCall.allocations[n]) =>
                /\ analysis.positions[n].symbol = LastCall.allocations[n].symbol
                /\ analysis.positions[n].pricePerShare = 0
                /\ analysis.positions[n].sharesToBuy = 0
                /\ ~IsUnderweight(analysis.positions[n])
                /\ ~OrderedIn(ordersToPlace, LastCall.allocations[n].symbol)
                /\ ~OrderedIn(PlannedOrders, LastCall.allocations[n].symbol)

\* a plan with an order, made while another allocation, below its target,
\* has no priced position
C36_Witness ==
    /\ planPc = "planned"
    /\ Analysed
    /\ Len(PlannedOrders) >= 1
    /\ \E n \in 1..Len(LastCall.allocations) :
          /\ Unpriced(LastCall.allocations[n])
          /\ analysis.positions[n].deviationPercent.num > 0

\* the allocation has no held position at all
C36_NoPositionReached ==
    /\ planPc = "planned"
    /\ Analysed
    /\ Len(PlannedOrders) >= 1
    /\ \E n \in 1..Len(LastCall.allocations) :
          FindPosition(LastCall.positions, LastCall.allocations[n].symbol) = 0

\* the allocation has a position priced 0
C36_PriceZeroReached ==
    /\ planPc = "planned"
    /\ Analysed
    /\ Len(PlannedOrders) >= 1
    /\ \E n \in 1..Len(LastCall.allocations) :
          LET m == FindPosition(LastCall.positions, LastCall.allocations[n].symbol)
          IN  m # 0 /\ positions[m].mktPrice = 0

----------------------------------------------------------------------------
\* SpecGateway: the GatewayManager under start(), stop(), the gateway:status
\* handler, the health-check timers and the events of the gateway processes

\* STARTUP_TIMEOUT / STARTUP_POLL_INTERVAL, the attempts of waitForReady
MaxAttempts == 2

\* the checkIfRunning calls that may be awaiting checkHealth together
MaxChecks == 2

\* the checkHealth requests of health-check timers that may be pending
\* together
MaxHealthChecks == 1

\* the timers the model lets pile up
MaxTimers == 3

\* the gateway:start requests of a run of the model
MaxStarts == 2

\* the stop() calls that may be waiting or have their timer pending together
MaxStops == 2

\* startHealthChecks(): this.healthCheckInterval = setInterval(...)
StartHealthChecks(held, timers) == [held |-> TRUE, timers |-> timers + 1]

\* stopHealthChecks(): the timer held in the field is cleared, if any
StopHealthChecks(held, timers) ==
    [held |-> FALSE, timers |-> IF held THEN timers - 1 ELSE timers]

InitGateway ==
    /\ CoreQuiet
    /\ PagesIdle /\ HttpIdle /\ RunsIdle /\ ConvIdle /\ PollIdle /\ LoginIdle
    /\ GatewayIdle

\* a start() call at one of its awaits: showJavaError ("dialog"), checkHealth
\* ("check"), sleep ("sleep"), stop() ("stopping"); i is waitForReady's i
StartCall(pc) == [pc |-> pc, i |-> 0, value |-> FALSE]

\* start() returns
StartReturns(call, value) == [call EXCEPT !.pc = "returned", !.value = value]

\* a process as spawn() returns it
Child == [alive |-> TRUE, signal |-> "none"]

\* proc.kill(signal): the child keeps the strongest signal sent to it
Kill(children, c, signal) ==
    [children EXCEPT ![c].signal = IF @ = "SIGKILL" THEN @ ELSE signal]

\* a stop() call that found a process: proc is the process it read, by the
\* start() that awaits it (0 for the gateway:stop handler), timer its
\* setTimeout of 5000 ms
StopCall(proc, by) == [proc |-> proc, by |-> by, resolved |-> FALSE, timer |-> TRUE]

\* a stop() that has resolved and whose timer has fired leaves nothing behind
StopIsOver(call) == call.resolved /\ ~call.timer

\* the stop() calls that are left of stops
RECURSIVE StopsLeft(_)
StopsLeft(stops) ==
    IF stops = <<>> THEN <<>>
    ELSE IF StopIsOver(Head(stops)) THEN StopsLeft(Tail(stops))
    ELSE <<Head(stops)>> \o StopsLeft(Tail(stops))

\* resolve() of the stop() calls in the set done: a start() that awaits one
\* of them returns false
StartsResumed(starts, stops, done) ==
    [s \in 1..Len(starts) |->
        IF starts[s].pc = "stopping"
           /\ \E n \in done : stops[n].by = s /\ ~stops[n].resolved
          THEN StartReturns(starts[s], FALSE)
          ELSE starts[s]]

\* gateway:start, start() up to its first await: the Java check, then the
\* dialog, or the spawn and the first checkHealth of waitForReady
GatewayStart ==
    /\ Len(gwStarts) < MaxStarts
    /\ \E java \in BOOLEAN, spawned \in BOOLEAN :
          IF ~java
            THEN /\ gwStarts' = Append(gwStarts, StartCall("dialog"))
                 /\ UNCHANGED <<gwStatus, gwProcess, gwChildren>>
            ELSE IF ~spawned
            THEN /\ gwStatus' = "error"
                 /\ gwStarts' = Append(gwStarts, StartReturns(StartCall("check"), FALSE))
                 /\ UNCHANGED <<gwProcess, gwChildren>>
            ELSE /\ gwStatus' = "starting"
                 /\ gwChildren' = Append(gwChildren, Child)
                 /\ gwProcess' = Len(gwChildren) + 1
                 /\ gwStarts' = Append(gwStarts, StartCall("check"))
    /\ UNCHANGED <<coreVars, loginVars, pagesVars, httpVars, runVars, convVars, pollVars,
                   gwInterval, gwTimers, gwStops, gwChecks, gwHealthChecks>>

\* await this.showJavaError() settles: start() sets 'error' and returns false
JavaErrorShown ==
    /\ \E s \in 1..Len(gwStarts) :
          /\ gwStarts[s].pc = "dialog"
          /\ gwStarts' = [gwStarts EXCEPT ![s] = StartReturns(@, FALSE)]
    /\ gwStatus' = "error"
    /\ UNCHANGED <<coreVars, loginVars, pagesVars, httpVars, runVars, convVars, pollVars,
                   gwProcess, gwChildren, gwInterval, gwTimers, gwStops, gwChecks,
                   gwHealthChecks>>

\* one checkHealth of waitForReady settles: ready, and start() returns true,
\* or the sleep of STARTUP_POLL_INTERVAL begins
WaitForReady ==
    /\ gwTimers < MaxTimers
    /\ \E s \in 1..Len(gwStarts), healthy \in BOOLEAN :
          /\ gwStarts[s].pc = "check"
          /\ IF healthy
               THEN LET h == StartHealthChecks(gwInterval, gwTimers)
                    IN  /\ gwStatus' = "running"
                        /\ gwInterval' = h.held
                        /\ gwTimers' = h.timers
                        /\ gwStarts' = [gwStarts EXCEPT ![s] = StartReturns(@, TRUE)]
               ELSE /\ gwStarts' = [gwStarts EXCEPT ![s].pc = "sleep"]
                    /\ UNCHANGED <<gwStatus, gwInterval, gwTimers>>
    /\ UNCHANGED <<coreVars, loginVars, pagesVars, httpVars, runVars, convVars, pollVars,
                   gwProcess, gwChildren, gwStops, gwChecks, gwHealthChecks>>

\* the sleep of waitForReady ends: the next checkHealth is sent, or, after
\* the last attempt, waitForReady returns false and start() sets 'error' and
\* calls stop()
WaitSleepEnds ==
    /\ \E s \in 1..Len(gwStarts) :
          /\ gwStarts[s].pc = "sleep"
          /\ IF gwStarts[s].i + 1 < MaxAttempts
               THEN /\ gwStarts' = [gwStarts EXCEPT ![s].pc = "check", ![s].i = @ + 1]
                    /\ UNCHANGED <<gwStatus, gwInterval, gwTimers, gwChildren, gwStops>>
               ELSE LET h == StopHealthChecks(gwInterval, gwTimers)
                    IN  /\ gwStatus' = "error"
                        /\ gwInterval' = h.held
                        /\ gwTimers' = h.timers
                        /\ IF gwProcess = 0
                             THEN /\ gwStarts' = [gwStarts EXCEPT ![s] =
                                                     StartReturns([@ EXCEPT !.i = @ + 1], FALSE)]
                                  /\ UNCHANGED <<gwChildren, gwStops>>
                             ELSE /\ Len(gwStops) < MaxStops
                                  /\ gwStarts' = [gwStarts EXCEPT ![s].pc = "stopping",
                                                                  ![s].i = @ + 1]
                                  /\ gwChildren' = Kill(gwChildren, gwProcess, "SIGTERM")
                                  /\ gwStops' = Append(gwStops, StopCall(gwProcess, s))
    /\ UNCHANGED <<coreVars, loginVars, pagesVars, httpVars, runVars, convVars, pollVars,
                   gwProcess, gwChecks, gwHealthChecks>>

\* a gateway process exits: the 'exit' handler set by the start() that
\* spawned it, then the onExit of every stop() that listens to it
ProcessExit ==
    /\ \E c \in 1..Len(gwChildren) :
          /\ gwChildren[c].alive
          /\ gwChildren' = [gwChildren EXCEPT ![c].alive = FALSE]
          /\ LET done == { n \in 1..Len(gwStops) : gwStops[n].proc = c }
             IN  /\ gwStarts' = StartsResumed(gwStarts, gwStops, done)
                 /\ gwStops' = StopsLeft([n \in 1..Len(gwStops) |->
                                            IF n \in done
                                              THEN [gwStops[n] EXCEPT !.resolved = TRUE]
                                              ELSE gwStops[n]])
    /\ gwProcess' = 0
    /\ gwStatus' = "stopped"
    /\ LET h == StopHealthChecks(gwInterval, gwTimers)
       IN  gwInterval' = h.held /\ gwTimers' = h.timers
    /\ UNCHANGED <<coreVars, loginVars, pagesVars, httpVars, runVars, convVars, pollVars,
                   gwChecks, gwHealthChecks>>

\* process.on('error') of a gateway process
ProcessError ==
    /\ \E c \in 1..Len(gwChildren) : gwChildren[c].alive
    /\ gwStatus # "error"
    /\ gwStatus' = "error"
    /\ UNCHANGED <<coreVars, loginVars, pagesVars, httpVars, runVars, convVars, pollVars,
                   gwProcess, gwChildren, gwInterval, gwTimers, gwStarts, gwStops,
                   gwChecks, gwHealthChecks>>

\* stop() called by the gateway:stop handler
GatewayStop ==
    /\ LET h == StopHealthChecks(gwInterval, gwTimers)
       IN  gwInterval' = h.held /\ gwTimers' = h.timers
    /\ IF gwProcess = 0
         THEN UNCHANGED <<gwChildren, gwStops>>
         ELSE /\ Len(gwStops) < MaxStops
              /\ gwChildren' = Kill(gwChildren, gwProcess, "SIGTERM")
              /\ gwStops' = Append(gwStops, StopCall(gwProcess, 0))
    /\ UNCHANGED <<coreVars, loginVars, pagesVars, httpVars, runVars, convVars, pollVars,
                   gwStatus, gwProcess, gwStarts, gwChecks, gwHealthChecks>>

\* the 5 second timer of a stop() fires: when this.process is set, SIGKILL
\* to that process and the onExit() of this stop()
ForceKill ==
    /\ \E n \in 1..Len(gwStops) :
          /\ gwStops[n].timer
          /\ IF gwProcess # 0
               THEN /\ gwChildren' = Kill(gwChildren, gwProcess, "SIGKILL")
                    /\ gwProcess' = 0
                    /\ gwStarts' = StartsResumed(gwStarts, gwStops, {n})
                    /\ gwStops' = StopsLeft([gwStops EXCEPT ![n].timer = FALSE,
                                                            ![n].resolved = TRUE])
               ELSE /\ gwStops' = StopsLeft([gwStops EXCEPT ![n].timer = FALSE])
                    /\ UNCHANGED <<gwChildren, gwProcess, gwStarts>>
    /\ UNCHANGED <<coreVars, loginVars, pagesVars, httpVars, runVars, convVars, pollVars,
                   gwStatus, gwInterval, gwTimers, gwChecks, gwHealthChecks>>

\* the gateway:status handler finds 'stopped' or 'error' and calls
\* checkIfRunning()
StatusRequested ==
    /\ gwStatus \in {"stopped", "error"}
    /\ gwChecks < MaxChecks
    /\ gwChecks' = gwChecks + 1
    /\ UNCHANGED <<coreVars, loginVars, pagesVars, httpVars, runVars, convVars, pollVars,
                   gwStatus, gwProcess, gwChildren, gwInterval, gwTimers, gwStarts,
                   gwStops, gwHealthChecks>>

\* the checkHealth of a checkIfRunning() settles
CheckIfRunning ==
    /\ gwChecks > 0
    /\ gwTimers < MaxTimers
    /\ gwChecks' = gwChecks - 1
    /\ \E healthy \in BOOLEAN :
          IF healthy
            THEN LET h == StartHealthChecks(gwInterval, gwTimers)
                 IN  /\ gwStatus' = "running"
                     /\ gwInterval' = h.held
                     /\ gwTimers' = h.timers
            ELSE UNCHANGED <<gwStatus, gwInterval, gwTimers>>
    /\ UNCHANGED <<coreVars, loginVars, pagesVars, httpVars, runVars, convVars, pollVars,
                   gwProcess, gwChildren, gwStarts, gwStops, gwHealthChecks>>

\* a health-check timer fires and sends its checkHealth
HealthCheckFires ==
    /\ gwTimers > 0
    /\ gwHealthChecks < MaxHealthChecks
    /\ gwHealthChecks' = gwHealthChecks + 1
    /\ UNCHANGED <<coreVars, loginVars, pagesVars, httpVars, runVars, convVars, pollVars,
                   gwStatus, gwProcess, gwChildren, gwInterval, gwTimers, gwStarts,
                   gwStops, gwChecks>>

\* the checkHealth of a health-check timer settles: unhealthy with the
\* status 'running' sets 'error'
HealthCheckSettles ==
    /\ gwHealthChecks > 0
    /\ gwHealthChecks' = gwHealthChecks - 1
    /\ \E healthy \in BOOLEAN :
          gwStatus' = IF ~healthy /\ gwStatus = "running" THEN "error" ELSE gwStatus
    /\ UNCHANGED <<coreVars, loginVars, pagesVars, httpVars, runVars, convVars, pollVars,
                   gwProcess, gwChildren, gwInterval, gwTimers, gwStarts, gwStops,
                   gwChecks>>

NextGateway ==
    \/ GatewayStart \/ JavaErrorShown \/ WaitForReady \/ WaitSleepEnds
    \/ ProcessExit \/ ProcessError \/ GatewayStop \/ ForceKill
    \/ StatusRequested \/ CheckIfRunning \/ HealthCheckFires \/ HealthCheckSettles

SpecGateway == InitGateway /\ [][NextGateway]_vars

\* a gateway process is alive
ChildAlive == \E c \in 1..Len(gwChildren) : gwChildren[c].alive

\* C37: the GatewayManager keeps at most one periodic health-check timer
\* active at any time, across any sequence of start(), checkIfRunning()
\* (including the calls made by the gateway:status handler while the status
\* is 'stopped' or 'error'), failed health checks, process exit and stop().
C37_OneHealthCheckTimer == gwTimers <= 1

\* the part that holds: the field holds a timer only while one is active
C37_HeldTimerIsActive == gwInterval => gwTimers >= 1

\* two timers after a failed health check and the status request that
\* followed it
C37_TwoTimers == gwTimers = 2 /\ gwStatus = "running" /\ ChildAlive

\* a timer nothing holds any more, left running after stop()
C37_TimerOutlivesStop == gwTimers >= 1 /\ ~gwInterval /\ ~ChildAlive

\* the start() call s returns in this step
ReturnsNow(s) ==
    /\ gwStarts'[s].pc = "returned"
    /\ s <= Len(gwStarts) => gwStarts[s].pc # "returned"

\* C38: when start() returns true the status is 'running', and when it
\* returns false the status is 'error' at the moment it returns (including
\* the startup-timeout case where the gateway was stopped).
C38_StatusAtReturn ==
    [][\A s \in 1..Len(gwStarts') :
          ReturnsNow(s) =>
             IF gwStarts'[s].value THEN gwStatus' = "running" ELSE gwStatus' = "error"]_vars

\* the part that holds: true is returned with the status 'running', and
\* false is returned with 'error' unless start() had to wait for its stop()
C38_StatusAtReturnUnlessStopped ==
    [][\A s \in 1..Len(gwStarts') :
          ReturnsNow(s) =>
             IF gwStarts'[s].value THEN gwStatus' = "running"
             ELSE IF s <= Len(gwStarts) /\ gwStarts[s].pc = "stopping" THEN TRUE
             ELSE gwStatus' = "error"]_vars

\* start() has returned false after the startup timeout, the gateway
\* stopped, and the status is 'stopped'
C38_ReturnedFalseStopped ==
    /\ gwStarts # <<>>
    /\ gwStarts[1] = [pc |-> "returned", i |-> MaxAttempts, value |-> FALSE]
    /\ ~ChildAlive
    /\ gwStatus = "stopped"

----------------------------------------------------------------------------
\* SpecLogin: the login window opened by gateway:openLogin and its
\* did-navigate and did-finish-load handlers

\* the events one window delivers in the model
MaxEvents == 4

\* the urls the window navigates to
LoginUrls ==
    { "https://localhost:5003/", "https://localhost:5003",
      "https://localhost:5003/portal/", "https://localhost:5003/?forwardTo=22",
      "https://localhost:5003/sso/Login", "https://localhost:5003/sso/Dispatcher" }

\* url === 'https://localhost:5003/' || url === 'https://localhost:5003' ||
\* url.includes('localhost:5003/portal') || url.includes('localhost:5003/?')
IsPortalUrl(url) ==
    CASE url = "https://localhost:5003/"              -> TRUE
      [] url = "https://localhost:5003"               -> TRUE
      [] url = "https://localhost:5003/portal/"       -> TRUE
      [] url = "https://localhost:5003/?forwardTo=22" -> TRUE
      [] OTHER                                        -> FALSE

\* what executeJavaScript settles with: the page text, or a rejection
PageTexts ==
    { [kind |-> "text", text |-> "Client login succeeds"],
      [kind |-> "text", text |-> "Log in"],
      [kind |-> "text", text |-> ""],
      [kind |-> "throw"] }

\* pageText.includes('Client login succeeds'), inside the try
ShowsSuccess(page) == page.kind = "text" /\ page.text = "Client login succeeds"

\* a handler that schedules the initialisation on every detection
EveryDetection(completed) == TRUE

\* if (!loginCompleted)
FirstDetection(completed) == ~completed

\* loginCompleted = true and the setTimeout, when the detection is the first
Detected ==
    IF FirstDetection(loginCompleted)
      THEN loginCompleted' = TRUE /\ loginTimers' = loginTimers + 1
      ELSE UNCHANGED <<loginCompleted, loginTimers>>

InitLogin ==
    /\ CoreQuiet
    /\ PagesIdle /\ HttpIdle /\ RunsIdle /\ ConvIdle /\ PollIdle /\ GatewayIdle
    /\ LoginIdle

\* the window delivers events
WindowShown == loginWindow \in {"open", "initializing"}

\* the gateway:openLogin handler: the window and its handlers
OpenLogin ==
    /\ loginWindow = "none"
    /\ loginWindow' = "open"
    /\ loginCompleted' = FALSE
    /\ UNCHANGED <<coreVars, pagesVars, httpVars, runVars, convVars, pollVars, gwVars,
                   loginLoads, loginTimers, loginInits, loginLog>>

\* webContents.on('did-navigate')
DidNavigate ==
    /\ WindowShown
    /\ Len(loginLog) < MaxEvents
    /\ \E url \in LoginUrls :
          /\ loginLog' = Append(loginLog, [event |-> "navigate", portal |-> IsPortalUrl(url)])
          /\ IF IsPortalUrl(url)
               THEN Detected
               ELSE UNCHANGED <<loginCompleted, loginTimers>>
    /\ UNCHANGED <<coreVars, pagesVars, httpVars, runVars, convVars, pollVars, gwVars,
                   loginWindow, loginLoads, loginInits>>

\* webContents.on('did-finish-load') up to its await
DidFinishLoad ==
    /\ WindowShown
    /\ Len(loginLog) < MaxEvents
    /\ loginLog' = Append(loginLog, [event |-> "load"])
    /\ loginLoads' = loginLoads + 1
    /\ UNCHANGED <<coreVars, pagesVars, httpVars, runVars, convVars, pollVars, gwVars,
                   loginWindow, loginCompleted, loginTimers, loginInits>>

\* the executeJavaScript of a did-finish-load handler settles, whether the
\* window is still open or not
PageTextSettles ==
    /\ loginLoads > 0
    /\ loginLoads' = loginLoads - 1
    /\ \E page \in PageTexts :
          /\ loginLog' = Append(loginLog, [event |-> "text", success |-> ShowsSuccess(page)])
          /\ IF ShowsSuccess(page)
               THEN Detected
               ELSE UNCHANGED <<loginCompleted, loginTimers>>
    /\ UNCHANGED <<coreVars, pagesVars, httpVars, runVars, convVars, pollVars, gwVars,
                   loginWindow, loginInits>>

\* a scheduled callback runs up to its await: initBrokerageSession is called
InitTimerFires ==
    /\ loginTimers > 0
    /\ loginTimers' = loginTimers - 1
    /\ loginInits' = loginInits + 1
    /\ loginWindow' = IF loginWindow = "open" THEN "initializing" ELSE loginWindow
    /\ UNCHANGED <<coreVars, pagesVars, httpVars, runVars, convVars, pollVars, gwVars,
                   loginCompleted, loginLoads, loginLog>>

\* initBrokerageSession settles, with a result or an error, and the window
\* is closed
InitSettles ==
    /\ loginWindow = "initializing"
    /\ loginWindow' = "closed"
    /\ UNCHANGED <<coreVars, pagesVars, httpVars, runVars, convVars, pollVars, gwVars,
                   loginCompleted, loginLoads, loginTimers, loginInits, loginLog>>

\* the user closes the window
WindowClosed ==
    /\ WindowShown
    /\ loginWindow' = "closed"
    /\ UNCHANGED <<coreVars, pagesVars, httpVars, runVars, convVars, pollVars, gwVars,
                   loginCompleted, loginLoads, loginTimers, loginInits, loginLog>>

NextLogin ==
    \/ OpenLogin \/ DidNavigate \/ DidFinishLoad \/ PageTextSettles
    \/ InitTimerFires \/ InitSettles \/ WindowClosed

SpecLogin == InitLogin /\ [][NextLogin]_vars

\* the detections of a finished login among the events so far
Detections ==
    Cardinality({n \in 1..Len(loginLog) :
        \/ loginLog[n].event = "navigate" /\ loginLog[n].portal
        \/ loginLog[n].event = "text" /\ loginLog[n].success})

\* C39: for one login window, initBrokerageSession is called at most once,
\* whatever the number and interleaving of did-navigate and did-finish-load
\* events (including a did-finish-load handler suspended on the page-text
\* extraction while did-navigate fires).
C39_InitAtMostOnce ==
    /\ loginInits + loginTimers <= 1
    /\ loginInits + loginTimers = (IF Detections > 0 THEN 1 ELSE 0)
    /\ loginCompleted <=> Detections > 0

\* one call, after a did-finish-load handler was suspended, a did-navigate
\* to the portal fired, and the suspended handler then saw the success text
C39_Witness ==
    /\ loginInits = 1
    /\ \E a, b, c \in 1..Len(loginLog) :
          /\ a < b /\ b < c
          /\ loginLog[a].event = "load"
          /\ loginLog[b].event = "navigate" /\ loginLog[b].portal
          /\ loginLog[c].event = "text" /\ loginLog[c].success

=============================================================================
